---------------------------- MODULE Spec2Model ----------------------------
(***************************************************************************)
(* A model of the webmachine HTTP decision engine (src/src/lib.rs and the  *)
(* modules it uses).  A request is driven through the decision graph of    *)
(* TRANSITION_MAP by execute_state_machine; every loop iteration of that   *)
(* function is one Step of the model.                                      *)
(*                                                                         *)
(* Conventions.                                                            *)
(*   - A Rust String whose characters matter (header values, ETags, media  *)
(*     types, languages, methods) is a sequence of one-character         *)
(*     strings.  Header names are TLA+ strings, upper-cased by a table.    *)
(*   - Option<T> is a sequence of length at most one: None is <<>> and     *)
(*     Some(x) is <<x>>.                                                   *)
(*   - Result<T, u16> is a record [tag, val] with tag "Ok" or "Err".       *)
(*   - A resource callback is its return value (plus, for the callbacks    *)
(*     that write, the context fields it sets); the resource is immutable  *)
(*     for the whole request.                                              *)
(*   - A DateTime is an integer instant.  A weight (f32) is an integer     *)
(*     number of tenths.                                                   *)
(***************************************************************************)
EXTENDS Integers, Sequences, FiniteSets, TLC

VARIABLES
    context,      \* Context: request, response, selected_*, if_*_since, redirect, new_resource
    resource,     \* Resource: the static lists and the callbacks' results
    state,        \* execute_state_machine: the current Decision
    loop_count,   \* execute_state_machine: the loop counter
    decisions,    \* execute_state_machine: the trace of (node, branch taken, next node)
    calls,        \* the resource callbacks invoked so far, in order
    utc_now,      \* what Utc::now() returned when the run read the clock, if it did
    pc,           \* "receive" | "dispatch" | "running" | "done" | "finalised" |
                  \* "not_found" | "panic_unwrap" | "panic_loop" | "serving"
    routes,       \* Dispatcher: the routes in key order, each with its resource
    uri_path,     \* the path of the request as the transport received it
    uri_query,    \* its query string, if it has one
    tasks,        \* the requests that share a Resource: what each has still to do
    owner         \* the callback mutexes of the shared Resource: the request that holds each

vars == <<context, resource, state, loop_count, decisions, calls, utc_now, pc,
          routes, uri_path, uri_query, tasks, owner>>

---------------------------------------------------------------------------
(* Option and Result *)

None == <<>>
Some(x) == <<x>>
IsSome(o) == Len(o) > 0
Unwrap(o) == o[1]

Ok(v) == [tag |-> "Ok", val |-> v]
Err(s) == [tag |-> "Err", val |-> s]

---------------------------------------------------------------------------
(* Strings as character sequences *)

Lower == <<"a","b","c","d","e","f","g","h","i","j","k","l","m",
           "n","o","p","q","r","s","t","u","v","w","x","y","z">>
Upper == <<"A","B","C","D","E","F","G","H","I","J","K","L","M",
           "N","O","P","Q","R","S","T","U","V","W","X","Y","Z">>

UpperChar(c) ==
    IF \E i \in 1..Len(Lower) : Lower[i] = c
    THEN Upper[CHOOSE i \in 1..Len(Lower) : Lower[i] = c]
    ELSE c

LowerChar(c) ==
    IF \E i \in 1..Len(Upper) : Upper[i] = c
    THEN Lower[CHOOSE i \in 1..Len(Upper) : Upper[i] = c]
    ELSE c

\* str::to_uppercase / str::to_lowercase on a character sequence
TextUpper(t) == [i \in 1..Len(t) |-> UpperChar(t[i])]
TextLower(t) == [i \in 1..Len(t) |-> LowerChar(t[i])]

\* str::starts_with
StartsWith(t, prefix) ==
    /\ Len(prefix) <= Len(t)
    /\ SubSeq(t, 1, Len(prefix)) = prefix

\* The header names of the model, with their upper-case forms
\* (String::to_uppercase on a header name).
to_uppercase(s) ==
    CASE s = "If-Match" -> "IF-MATCH"
      [] s = "if-match" -> "IF-MATCH"
      [] s = "If-Unmodified-Since" -> "IF-UNMODIFIED-SINCE"
      [] s = "If-None-Match" -> "IF-NONE-MATCH"
      [] s = "If-Modified-Since" -> "IF-MODIFIED-SINCE"
      [] s = "Accept" -> "ACCEPT"
      [] s = "accept" -> "ACCEPT"
      [] s = "Accept-Language" -> "ACCEPT-LANGUAGE"
      [] s = "Accept-Charset" -> "ACCEPT-CHARSET"
      [] s = "Accept-Encoding" -> "ACCEPT-ENCODING"
      [] s = "Content-Type" -> "CONTENT-TYPE"
      [] s = "content-type" -> "CONTENT-TYPE"
      [] s = "Vary" -> "VARY"
      [] OTHER -> s


Digits == <<"0","1","2","3","4","5","6","7","8","9">>
IsDigit(c) == \E i \in 1..Len(Digits) : Digits[i] = c
DigitVal(c) == (CHOOSE i \in 1..Len(Digits) : Digits[i] = c) - 1

\* The index of the first occurrence of character c in t, 0 when there is none.
IndexOf(t, c) ==
    IF \E i \in 1..Len(t) : t[i] = c
    THEN CHOOSE i \in 1..Len(t) : t[i] = c /\ \A j \in 1..(i - 1) : t[j] # c
    ELSE 0

\* str::trim, for the blank character
RECURSIVE Trim(_)
Trim(t) ==
    IF Len(t) > 0 /\ t[1] = " " THEN Trim(Tail(t))
    ELSE IF Len(t) > 0 /\ t[Len(t)] = " " THEN Trim(SubSeq(t, 1, Len(t) - 1))
    ELSE t

\* str::split(c): the pieces of t between occurrences of c
RECURSIVE Split(_, _)
Split(t, c) ==
    LET i == IndexOf(t, c)
    IN IF i = 0 THEN <<t>>
       ELSE <<SubSeq(t, 1, i - 1)>> \o Split(SubSeq(t, i + 1, Len(t)), c)

\* str::splitn(2, c): at most two pieces, split at the first c
Splitn2(t, c) ==
    LET i == IndexOf(t, c)
    IN IF i = 0 THEN <<t>>
       ELSE <<SubSeq(t, 1, i - 1), SubSeq(t, i + 1, Len(t))>>

DQ == "\""

IsQuoted(t) == Len(t) >= 2 /\ t[1] = DQ /\ t[Len(t)] = DQ
Unquoted(t) == IF IsQuoted(t) THEN SubSeq(t, 2, Len(t) - 1) ELSE t

\* str::parse::<f32>() followed by unwrap_or(1.0), in tenths.  The model's
\* weights are written "d" or "d.d"; any other text is a parse failure.
ParseWeight(t) ==
    IF Len(t) = 1 /\ IsDigit(t[1]) THEN 10 * DigitVal(t[1])
    ELSE IF Len(t) = 3 /\ IsDigit(t[1]) /\ t[2] = "." /\ IsDigit(t[3])
         THEN 10 * DigitVal(t[1]) + DigitVal(t[3])
    ELSE 10

---------------------------------------------------------------------------
(* HeaderValue (module headers) *)

\* HeaderValue::basic
basic(v) == [value |-> v, params |-> << >>, quote |-> FALSE]

\* One "key=value" parameter as a pair <<key, value>>: the key lower-cased,
\* the value unquoted.
ParseParam(p) ==
    LET kv == Splitn2(Trim(p), "=")
    IN <<TextLower(Trim(kv[1])),
         IF Len(kv) = 2 THEN Unquoted(Trim(kv[2])) ELSE << >> >>

\* HeaderValue::parse_string: "value[; param[=value]]*".  params is the
\* sequence of <<key, value>> pairs in the order written.
parse_string(raw) ==
    LET parts == Split(raw, ";")
    IN [value  |-> Unquoted(Trim(parts[1])),
        params |-> [i \in 1..(Len(parts) - 1) |-> ParseParam(parts[i + 1])],
        quote  |-> FALSE]

\* params.contains_key / params.get
HasParam(hv, key) == \E i \in 1..Len(hv.params) : hv.params[i][1] = key
GetParam(hv, key) ==
    hv.params[CHOOSE i \in 1..Len(hv.params) :
                 /\ hv.params[i][1] = key
                 /\ \A j \in (i + 1)..Len(hv.params) : hv.params[j][1] # key][2]

\* HeaderValue::weak_etag: Some(inner) when value is W/ followed by a
\* double-quoted token, None otherwise.
weak_etag(hv) ==
    LET rest == SubSeq(hv.value, 3, Len(hv.value))
    IN IF /\ StartsWith(hv.value, <<"W", "/">>)
          /\ IsQuoted(rest)
          /\ \A i \in 2..(Len(rest) - 1) : rest[i] # DQ
       THEN Some(SubSeq(rest, 2, Len(rest) - 1))
       ELSE None

\* impl PartialEq<str> for HeaderValue: the primary value only
HeaderValueEqStr(hv, s) == hv.value = s

---------------------------------------------------------------------------
(* Negotiation primitives (module content_negotiation) *)

\* A stable sort of the sequence s by the integer keys k (k[i] is the key of
\* s[i]), ascending: itertools' sorted_by is a stable sort.
StableSortByKey(s, k) ==
    LET rank(i) == 1 + Cardinality({m \in 1..Len(s) :
                           k[m] < k[i] \/ (k[m] = k[i] /\ m < i)})
    IN [j \in 1..Len(s) |-> s[CHOOSE i \in 1..Len(s) : rank(i) = j]]

\* Iterator::filter on a sequence
RECURSIVE FilterPositive(_)
FilterPositive(s) ==
    IF s = << >> THEN << >>
    ELSE IF Head(s).weight > 0 THEN <<Head(s)>> \o FilterPositive(Tail(s))
    ELSE FilterPositive(Tail(s))

\* MediaType::parse_string
MediaType_parse_string(media_type) ==
    LET types == Splitn2(media_type, "/")
    IN IF types[1] = << >>
       THEN [main |-> <<"*">>, sub |-> <<"*">>, weight |-> 10]
       ELSE [main |-> types[1],
             sub |-> IF Len(types) = 1 \/ types[2] = << >> THEN <<"*">> ELSE types[2],
             weight |-> 10]

\* MediaType::with_weight
MediaType_with_weight(mt, weight) == [mt EXCEPT !.weight = ParseWeight(weight)]

\* MediaType::weight: (weight, specificity)
MediaType_weight(mt) ==
    IF mt.main = <<"*">> /\ mt.sub = <<"*">> THEN <<mt.weight, 2>>
    ELSE IF mt.sub = <<"*">> THEN <<mt.weight, 1>>
    ELSE <<mt.weight, 0>>

\* MediaTypeMatch, in its derived order: Full < SubStar < Star < None
MatchFull == 0
MatchSubStar == 1
MatchStar == 2
MatchNone == 3

\* MediaType::matches
MediaType_matches(self, other) ==
    IF other.main = <<"*">> THEN MatchStar
    ELSE IF self.main = other.main /\ other.sub = <<"*">> THEN MatchSubStar
    ELSE IF self.main = other.main /\ self.sub = other.sub THEN MatchFull
    ELSE MatchNone

\* MediaType::to_string
MediaType_to_string(mt) == mt.main \o <<"/">> \o mt.sub

\* MediaLanguage::parse_string
MediaLanguage_parse_string(language) ==
    LET types == Splitn2(language, "-")
    IN IF types[1] = << >>
       THEN [main |-> <<"*">>, sub |-> << >>, weight |-> 10]
       ELSE [main |-> types[1],
             sub |-> IF Len(types) = 1 \/ types[2] = << >> THEN << >> ELSE types[2],
             weight |-> 10]

\* MediaLanguage::with_weight
MediaLanguage_with_weight(ml, weight) == [ml EXCEPT !.weight = ParseWeight(weight)]

\* MediaLanguage::to_string
MediaLanguage_to_string(ml) ==
    IF ml.sub = << >> THEN ml.main ELSE ml.main \o <<"-">> \o ml.sub

\* MediaLanguage::matches
MediaLanguage_matches(self, other) ==
    IF other.main = <<"*">> \/ (self.main = other.main /\ self.sub = other.sub)
    THEN TRUE
    ELSE StartsWith(MediaLanguage_to_string(other),
                    MediaLanguage_to_string(self) \o <<"-">>)

\* Charset::parse_string / with_weight / matches / to_string
Charset_parse_string(charset) == [charset |-> charset, weight |-> 10]
Charset_with_weight(cs, weight) == [cs EXCEPT !.weight = ParseWeight(weight)]
Charset_matches(self, other) ==
    other.charset = <<"*">> \/ TextUpper(self.charset) = TextUpper(other.charset)
Charset_to_string(cs) == cs.charset

\* Encoding::parse_string / with_weight / matches / to_string
Encoding_parse_string(encoding) == [encoding |-> encoding, weight |-> 10]
Encoding_with_weight(e, weight) == [e EXCEPT !.weight = ParseWeight(weight)]
Encoding_matches_case_sensitive(self, other) ==
    other.encoding = <<"*">> \/ self.encoding = other.encoding
Encoding_matches(self, other) ==
    other.encoding = <<"*">> \/ TextLower(self.encoding) = TextLower(other.encoding)
Encoding_to_string(e) == e.encoding

\* HeaderValue::as_media_type / as_media_language / as_charset / as_encoding:
\* the primary value parsed, with the q parameter (when present) as weight.
as_media_type(hv) ==
    IF HasParam(hv, <<"q">>)
    THEN MediaType_with_weight(MediaType_parse_string(hv.value), GetParam(hv, <<"q">>))
    ELSE MediaType_parse_string(hv.value)

as_media_language(hv) ==
    IF HasParam(hv, <<"q">>)
    THEN MediaLanguage_with_weight(MediaLanguage_parse_string(hv.value), GetParam(hv, <<"q">>))
    ELSE MediaLanguage_parse_string(hv.value)

as_charset(hv) ==
    IF HasParam(hv, <<"q">>)
    THEN Charset_with_weight(Charset_parse_string(hv.value), GetParam(hv, <<"q">>))
    ELSE Charset_parse_string(hv.value)

as_encoding(hv) ==
    IF HasParam(hv, <<"q">>)
    THEN Encoding_with_weight(Encoding_parse_string(hv.value), GetParam(hv, <<"q">>))
    ELSE Encoding_parse_string(hv.value)

---------------------------------------------------------------------------
(* Request (module context::request) *)

TxtStar == <<"*">>
TxtApplicationJson == <<"a","p","p","l","i","c","a","t","i","o","n","/","j","s","o","n">>
TxtIso88591 == <<"I","S","O","-","8","8","5","9","-","1">>
TxtIdentity == <<"i","d","e","n","t","i","t","y">>

\* The key of the header map that find() yields for a header name: header
\* names are compared upper-cased.  (The model's requests never carry one
\* header under two spellings.)
HeaderKey(headers, header) ==
    CHOOSE k \in DOMAIN headers : to_uppercase(k) = to_uppercase(header)

\* Request::has_header
has_header(request, header) ==
    \E k \in DOMAIN request.headers : to_uppercase(k) = to_uppercase(header)

\* Request::find_header
find_header(request, header) ==
    IF has_header(request, header)
    THEN request.headers[HeaderKey(request.headers, header)]
    ELSE << >>

\* Request::has_header_value
has_header_value(request, header, value) ==
    /\ has_header(request, header)
    /\ LET vals == request.headers[HeaderKey(request.headers, header)]
       IN \E i \in 1..Len(vals) : HeaderValueEqStr(vals[i], value)

\* Request::content_type
content_type(request) ==
    IF has_header(request, "CONTENT-TYPE")
    THEN LET vals == request.headers[HeaderKey(request.headers, "CONTENT-TYPE")]
         IN IF Len(vals) > 0 THEN vals[1].value ELSE TxtApplicationJson
    ELSE TxtApplicationJson

is_put_or_post(request) == TextUpper(request.method) \in {<<"P","U","T">>, <<"P","O","S","T">>}
is_get_or_head(request) == TextUpper(request.method) \in {<<"G","E","T">>, <<"H","E","A","D">>}
is_get(request) == TextUpper(request.method) = <<"G","E","T">>
is_options(request) == TextUpper(request.method) = <<"O","P","T","I","O","N","S">>
is_put(request) == TextUpper(request.method) = <<"P","U","T">>
is_post(request) == TextUpper(request.method) = <<"P","O","S","T">>
is_delete(request) == TextUpper(request.method) = <<"D","E","L","E","T","E">>

has_accept_header(request) == has_header(request, "ACCEPT")
accept(request) == find_header(request, "ACCEPT")
has_accept_language_header(request) == has_header(request, "ACCEPT-LANGUAGE")
accept_language(request) == find_header(request, "ACCEPT-LANGUAGE")
has_accept_charset_header(request) == has_header(request, "ACCEPT-CHARSET")
accept_charset(request) == find_header(request, "ACCEPT-CHARSET")
has_accept_encoding_header(request) == has_header(request, "ACCEPT-ENCODING")
accept_encoding(request) == find_header(request, "ACCEPT-ENCODING")

---------------------------------------------------------------------------
(* Response (module context::response) *)

\* Response::has_header
response_has_header(response, header) ==
    \E k \in DOMAIN response.headers : to_uppercase(k) = to_uppercase(header)

\* Response::add_header: BTreeMap::insert, replacing the values of the key
add_header(response, header, values) ==
    [response EXCEPT !.headers =
        [k \in (DOMAIN response.headers) \cup {header} |->
            IF k = header THEN values ELSE response.headers[k]]]

\* Response::has_body
has_body(response) == IsSome(response.body) /\ Unwrap(response.body) # << >>

---------------------------------------------------------------------------
(* Negotiation algorithms (module content_negotiation) *)

\* The least index in 1..n that satisfies P, 0 when there is none
FirstIndex(n, P(_)) ==
    IF \E i \in 1..n : P(i)
    THEN CHOOSE i \in 1..n : P(i) /\ \A j \in 1..(i - 1) : ~P(j)
    ELSE 0

\* The element of s at a found index, none at index 0
Nth(s, i) == IF i = 0 THEN None ELSE Some(s[i])

\* Iterator::find, and Iterator::next after a filter: the first element of s
\* that satisfies P
Find(s, P(_)) == Nth(s, FirstIndex(Len(s), LAMBDA i : P(s[i])))

\* Itertools::cartesian_product: every element of xs, in order, with every
\* element of ys, in order
cartesian_product(xs, ys) ==
    [n \in 1..(Len(xs) * Len(ys)) |->
        <<xs[((n - 1) \div Len(ys)) + 1], ys[((n - 1) % Len(ys)) + 1]>>]

\* The comparator of sort_media_types as a key: descending weight, then
\* ascending specificity (the specificity is one of 0, 1, 2)
MediaTypeSortKey(w) == 3 * (0 - w[1]) + w[2]

\* sort_media_types: stable
sort_media_types(media_types) ==
    StableSortByKey(media_types,
        [i \in 1..Len(media_types) |->
            MediaTypeSortKey(MediaType_weight(as_media_type(media_types[i])))])

\* The closure mapped over the pairs in matching_content_type
MediaTypeTriple(produced_media_type, acceptable_media_type) ==
    <<produced_media_type, acceptable_media_type,
      MediaType_matches(produced_media_type, acceptable_media_type)>>

MediaTypeTriples(pairs) ==
    [n \in 1..Len(pairs) |->
        MediaTypeTriple(MediaType_parse_string(pairs[n][1]), as_media_type(pairs[n][2]))]

\* .sorted_by(|a, b| Ord::cmp(&a.2, &b.2)): stable, best match first
SortByMatch(triples) ==
    StableSortByKey(triples, [n \in 1..Len(triples) |-> triples[n][3]])

\* .filter(|val| val.2 != MediaTypeMatch::None)
IsMediaTypeMatch(val) == val[3] # MatchNone

\* .map(|result| result.0.to_string())
MediaTypeResult(found) ==
    IF IsSome(found) THEN Some(MediaType_to_string(Unwrap(found)[1])) ELSE None

\* matching_content_type
matching_content_type(res, request) ==
    IF has_accept_header(request)
    THEN MediaTypeResult(Find(
             SortByMatch(MediaTypeTriples(
                 cartesian_product(res.produces, sort_media_types(accept(request))))),
             IsMediaTypeMatch))
    ELSE IF res.produces = << >> THEN None ELSE Some(res.produces[1])

\* .sorted_by on the weights, descending, stable
SortByWeight(s) == StableSortByKey(s, [i \in 1..Len(s) |-> 0 - s[i].weight])

\* .find(|val| val.1)
IsMatched(val) == val[2]

\* sort_media_languages that keeps the order of the header
sort_media_languages_unsorted(media_languages) ==
    FilterPositive(
        [i \in 1..Len(media_languages) |-> as_media_language(media_languages[i])])

\* sort_media_languages: weight 0 dropped, descending weight
sort_media_languages(media_languages) ==
    SortByWeight(FilterPositive(
        [i \in 1..Len(media_languages) |-> as_media_language(media_languages[i])]))

\* The closure mapped over the pairs in matching_language
LanguagePair(produced_language, acceptable_language) ==
    <<produced_language, MediaLanguage_matches(produced_language, acceptable_language)>>

LanguagePairs(pairs) ==
    [n \in 1..Len(pairs) |->
        LanguagePair(MediaLanguage_parse_string(pairs[n][2]), pairs[n][1])]

LanguageResult(found) ==
    IF IsSome(found) THEN Some(MediaLanguage_to_string(Unwrap(found)[1])) ELSE None

\* matching_language, once the acceptable languages are sorted
matching_language_among(languages_provided, acceptable_languages) ==
    IF languages_provided = << >>
    THEN IF acceptable_languages = << >> THEN None
         ELSE Some(MediaLanguage_to_string(acceptable_languages[1]))
    ELSE LanguageResult(Find(
             LanguagePairs(cartesian_product(acceptable_languages, languages_provided)),
             IsMatched))

\* matching_language
matching_language(res, request) ==
    IF has_accept_language_header(request) /\ accept_language(request) # << >>
    THEN matching_language_among(res.languages_provided,
                                 sort_media_languages(accept_language(request)))
    ELSE IF res.languages_provided = << >> THEN Some(TxtStar)
    ELSE Some(res.languages_provided[1])

\* The defaulting rule with the name compared as written, not upper-cased
WithDefaultCharset_case_sensitive(charsets) ==
    IF \E i \in 1..Len(charsets) :
           charsets[i].value = TxtStar \/ charsets[i].value = TxtIso88591
    THEN charsets
    ELSE Append(charsets, parse_string(TxtIso88591))

\* charsets.push(h!("ISO-8859-1")) unless it or * is listed
WithDefaultCharset(charsets) ==
    IF \E i \in 1..Len(charsets) :
           charsets[i].value = TxtStar \/ TextUpper(charsets[i].value) = TxtIso88591
    THEN charsets
    ELSE Append(charsets, parse_string(TxtIso88591))

CharsetsOf(charsets) == [i \in 1..Len(charsets) |-> as_charset(charsets[i])]

\* sort_media_charsets: ISO-8859-1 appended unless it or * is listed, weight 0
\* dropped, descending weight
sort_media_charsets(charsets) ==
    SortByWeight(FilterPositive(CharsetsOf(WithDefaultCharset(charsets))))

\* The closure mapped over the pairs in matching_charset
CharsetPair(provided_charset, acceptable_charset) ==
    <<provided_charset, Charset_matches(provided_charset, acceptable_charset)>>

CharsetPairs(pairs) ==
    [n \in 1..Len(pairs) |-> CharsetPair(Charset_parse_string(pairs[n][2]), pairs[n][1])]

CharsetResult(found) ==
    IF IsSome(found) THEN Some(Charset_to_string(Unwrap(found)[1])) ELSE None

\* matching_charset that answers ISO-8859-1 whenever the resource provides
\* no charset list
matching_charset_among_default(charsets_provided, acceptable_charsets) ==
    IF charsets_provided = << >>
    THEN Some(TxtIso88591)
    ELSE CharsetResult(Find(
             CharsetPairs(cartesian_product(acceptable_charsets, charsets_provided)),
             IsMatched))

\* matching_charset, once the acceptable charsets are sorted
matching_charset_among(charsets_provided, acceptable_charsets) ==
    IF charsets_provided = << >>
    THEN IF acceptable_charsets = << >> THEN None
         ELSE Some(Charset_to_string(acceptable_charsets[1]))
    ELSE CharsetResult(Find(
             CharsetPairs(cartesian_product(acceptable_charsets, charsets_provided)),
             IsMatched))

\* matching_charset
matching_charset(res, request) ==
    IF has_accept_charset_header(request) /\ accept_charset(request) # << >>
    THEN matching_charset_among(res.charsets_provided,
                                sort_media_charsets(accept_charset(request)))
    ELSE IF res.charsets_provided = << >> THEN Some(TxtIso88591)
    ELSE Some(res.charsets_provided[1])

\* encodings.push(h!("identity")) unless it or * is listed
WithDefaultEncoding(encodings) ==
    IF \E i \in 1..Len(encodings) :
           encodings[i].value = TxtStar \/ TextLower(encodings[i].value) = TxtIdentity
    THEN encodings
    ELSE Append(encodings, parse_string(TxtIdentity))

EncodingsOf(encodings) == [i \in 1..Len(encodings) |-> as_encoding(encodings[i])]

\* sort_encodings: identity appended unless it or * is listed, weight 0
\* dropped, descending weight
sort_encodings(encodings) ==
    SortByWeight(FilterPositive(EncodingsOf(WithDefaultEncoding(encodings))))

\* The closure mapped over the pairs in matching_encoding
EncodingPair(provided_encoding, acceptable_encoding) ==
    <<provided_encoding, Encoding_matches(provided_encoding, acceptable_encoding)>>

EncodingPairs(pairs) ==
    [n \in 1..Len(pairs) |-> EncodingPair(Encoding_parse_string(pairs[n][2]), pairs[n][1])]

EncodingResult(found) ==
    IF IsSome(found) THEN Some(Encoding_to_string(Unwrap(found)[1])) ELSE None

\* Vec::contains with the derived PartialEq: the name and the weight are equal
Contains(s, x) == \E i \in 1..Len(s) : s[i] = x

\* matching_encoding, once the acceptable encodings are sorted
matching_encoding_among(encodings_provided, acceptable_encodings) ==
    IF encodings_provided = << >>
    THEN IF Contains(acceptable_encodings, Encoding_parse_string(TxtIdentity))
         THEN Some(TxtIdentity) ELSE None
    ELSE EncodingResult(Find(
             EncodingPairs(cartesian_product(acceptable_encodings, encodings_provided)),
             IsMatched))

\* matching_encoding
matching_encoding(res, request) ==
    IF has_accept_encoding_header(request)
    THEN matching_encoding_among(res.encodings_provided,
                                 sort_encodings(accept_encoding(request)))
    ELSE IF res.encodings_provided = << >> THEN Some(TxtIdentity)
    ELSE Some(res.encodings_provided[1])

---------------------------------------------------------------------------
(* Decision, Transition, DecisionResult (module enums) *)

MAX_STATE_MACHINE_TRANSITIONS == 100

\* Decision: a named node, or End(status)
D(n) == [node |-> n, code |-> 0]
End(status) == [node |-> "End", code |-> status]

\* Decision::is_terminal
is_terminal(decision) == decision.node \in {"End", "A3Options"}

\* Transition::To / Transition::Branch
To(decision) == [kind |-> "To", t |-> decision, f |-> decision]
Branch(decision_true, decision_false) ==
    [kind |-> "Branch", t |-> decision_true, f |-> decision_false]

\* DecisionResult::True / False / StatusCode; Panic stands for a decision
\* that panics instead of returning.
ResultTrue == [kind |-> "True", code |-> 0]
ResultFalse == [kind |-> "False", code |-> 0]
ResultStatusCode(status) == [kind |-> "StatusCode", code |-> status]
ResultPanic == [kind |-> "Panic", code |-> 0]

\* DecisionResult::wrap
wrap(result) == IF result THEN ResultTrue ELSE ResultFalse

\* The variants of Decision other than End(u16)
Decisions ==
    {"A3Options",
     "B10MethodAllowed",
     "B11UriTooLong",
     "B12KnownMethod",
     "B13Available",
     "B3Options",
     "B4RequestEntityTooLarge",
     "B5UnknownContentType",
     "B6UnsupportedContentHeader",
     "B7Forbidden",
     "B8Authorized",
     "B9MalformedRequest",
     "C3AcceptExists",
     "C4AcceptableMediaTypeAvailable",
     "D4AcceptLanguageExists",
     "D5AcceptableLanguageAvailable",
     "E5AcceptCharsetExists",
     "E6AcceptableCharsetAvailable",
     "F6AcceptEncodingExists",
     "F7AcceptableEncodingAvailable",
     "G11EtagInIfMatch",
     "G7ResourceExists",
     "G8IfMatchExists",
     "G9IfMatchStarExists",
     "H10IfUnmodifiedSinceExists",
     "H11IfUnmodifiedSinceValid",
     "H12LastModifiedGreaterThanUMS",
     "H7IfMatchStarExists",
     "I12IfNoneMatchExists",
     "I13IfNoneMatchStarExists",
     "I4HasMovedPermanently",
     "I7Put",
     "J18GetHead",
     "K13ETagInIfNoneMatch",
     "K5HasMovedPermanently",
     "K7ResourcePreviouslyExisted",
     "L13IfModifiedSinceExists",
     "L14IfModifiedSinceValid",
     "L15IfModifiedSinceGreaterThanNow",
     "L17IfLastModifiedGreaterThanMS",
     "L5HasMovedTemporarily",
     "L7Post",
     "M16Delete",
     "M20DeleteEnacted",
     "M5Post",
     "M7PostToMissingResource",
     "N11Redirect",
     "N16Post",
     "N5PostToMissingResource",
     "O14Conflict",
     "O16Put",
     "O18MultipleRepresentations",
     "O20ResponseHasBody",
     "P11NewResource",
     "P3Conflict",
     "Start"}


\* The keys of TRANSITION_MAP
TransitionKeys ==
    {"Start", "B3Options", "B4RequestEntityTooLarge",
     "B5UnknownContentType", "B6UnsupportedContentHeader", "B7Forbidden",
     "B8Authorized", "B9MalformedRequest", "B10MethodAllowed",
     "B11UriTooLong", "B12KnownMethod", "B13Available", "C3AcceptExists",
     "C4AcceptableMediaTypeAvailable", "D4AcceptLanguageExists",
     "D5AcceptableLanguageAvailable", "E5AcceptCharsetExists",
     "E6AcceptableCharsetAvailable", "F6AcceptEncodingExists",
     "F7AcceptableEncodingAvailable", "G7ResourceExists",
     "G8IfMatchExists", "G9IfMatchStarExists", "G11EtagInIfMatch",
     "H7IfMatchStarExists", "H10IfUnmodifiedSinceExists",
     "H11IfUnmodifiedSinceValid", "H12LastModifiedGreaterThanUMS",
     "I4HasMovedPermanently", "I7Put", "I12IfNoneMatchExists",
     "I13IfNoneMatchStarExists", "J18GetHead", "K13ETagInIfNoneMatch",
     "K5HasMovedPermanently", "K7ResourcePreviouslyExisted",
     "L5HasMovedTemporarily", "L7Post", "L13IfModifiedSinceExists",
     "L14IfModifiedSinceValid", "L15IfModifiedSinceGreaterThanNow",
     "L17IfLastModifiedGreaterThanMS", "M5Post", "M7PostToMissingResource",
     "M16Delete", "M20DeleteEnacted", "N5PostToMissingResource",
     "N11Redirect", "N16Post", "O14Conflict", "O16Put", "P3Conflict",
     "P11NewResource", "O18MultipleRepresentations", "O20ResponseHasBody"}

\* TRANSITION_MAP: the entry of the key n
TRANSITION_MAP(n) ==
    CASE n = "Start" -> To(D("B13Available"))
    [] n = "B3Options" ->
         Branch(D("A3Options"), D("C3AcceptExists"))
    [] n = "B4RequestEntityTooLarge" ->
         Branch(End(413), D("B3Options"))
    [] n = "B5UnknownContentType" ->
         Branch(End(415), D("B4RequestEntityTooLarge"))
    [] n = "B6UnsupportedContentHeader" ->
         Branch(End(501), D("B5UnknownContentType"))
    [] n = "B7Forbidden" ->
         Branch(End(403), D("B6UnsupportedContentHeader"))
    [] n = "B8Authorized" ->
         Branch(D("B7Forbidden"), End(401))
    [] n = "B9MalformedRequest" ->
         Branch(End(400), D("B8Authorized"))
    [] n = "B10MethodAllowed" ->
         Branch(D("B9MalformedRequest"), End(405))
    [] n = "B11UriTooLong" ->
         Branch(End(414), D("B10MethodAllowed"))
    [] n = "B12KnownMethod" ->
         Branch(D("B11UriTooLong"), End(501))
    [] n = "B13Available" ->
         Branch(D("B12KnownMethod"), End(503))
    [] n = "C3AcceptExists" ->
         Branch(D("C4AcceptableMediaTypeAvailable"), D("D4AcceptLanguageExists"))
    [] n = "C4AcceptableMediaTypeAvailable" ->
         Branch(D("D4AcceptLanguageExists"), End(406))
    [] n = "D4AcceptLanguageExists" ->
         Branch(D("D5AcceptableLanguageAvailable"), D("E5AcceptCharsetExists"))
    [] n = "D5AcceptableLanguageAvailable" ->
         Branch(D("E5AcceptCharsetExists"), End(406))
    [] n = "E5AcceptCharsetExists" ->
         Branch(D("E6AcceptableCharsetAvailable"), D("F6AcceptEncodingExists"))
    [] n = "E6AcceptableCharsetAvailable" ->
         Branch(D("F6AcceptEncodingExists"), End(406))
    [] n = "F6AcceptEncodingExists" ->
         Branch(D("F7AcceptableEncodingAvailable"), D("G7ResourceExists"))
    [] n = "F7AcceptableEncodingAvailable" ->
         Branch(D("G7ResourceExists"), End(406))
    [] n = "G7ResourceExists" ->
         Branch(D("G8IfMatchExists"), D("H7IfMatchStarExists"))
    [] n = "G8IfMatchExists" ->
         Branch(D("G9IfMatchStarExists"), D("H10IfUnmodifiedSinceExists"))
    [] n = "G9IfMatchStarExists" ->
         Branch(D("H10IfUnmodifiedSinceExists"), D("G11EtagInIfMatch"))
    [] n = "G11EtagInIfMatch" ->
         Branch(D("H10IfUnmodifiedSinceExists"), End(412))
    [] n = "H7IfMatchStarExists" ->
         Branch(End(412), D("I7Put"))
    [] n = "H10IfUnmodifiedSinceExists" ->
         Branch(D("H11IfUnmodifiedSinceValid"), D("I12IfNoneMatchExists"))
    [] n = "H11IfUnmodifiedSinceValid" ->
         Branch(D("H12LastModifiedGreaterThanUMS"), D("I12IfNoneMatchExists"))
    [] n = "H12LastModifiedGreaterThanUMS" ->
         Branch(End(412), D("I12IfNoneMatchExists"))
    [] n = "I4HasMovedPermanently" ->
         Branch(End(301), D("P3Conflict"))
    [] n = "I7Put" ->
         Branch(D("I4HasMovedPermanently"), D("K7ResourcePreviouslyExisted"))
    [] n = "I12IfNoneMatchExists" ->
         Branch(D("I13IfNoneMatchStarExists"), D("L13IfModifiedSinceExists"))
    [] n = "I13IfNoneMatchStarExists" ->
         Branch(D("J18GetHead"), D("K13ETagInIfNoneMatch"))
    [] n = "J18GetHead" ->
         Branch(End(304), End(412))
    [] n = "K13ETagInIfNoneMatch" ->
         Branch(D("J18GetHead"), D("L13IfModifiedSinceExists"))
    [] n = "K5HasMovedPermanently" ->
         Branch(End(301), D("L5HasMovedTemporarily"))
    [] n = "K7ResourcePreviouslyExisted" ->
         Branch(D("K5HasMovedPermanently"), D("L7Post"))
    [] n = "L5HasMovedTemporarily" ->
         Branch(End(307), D("M5Post"))
    [] n = "L7Post" ->
         Branch(D("M7PostToMissingResource"), End(404))
    [] n = "L13IfModifiedSinceExists" ->
         Branch(D("L14IfModifiedSinceValid"), D("M16Delete"))
    [] n = "L14IfModifiedSinceValid" ->
         Branch(D("L15IfModifiedSinceGreaterThanNow"), D("M16Delete"))
    [] n = "L15IfModifiedSinceGreaterThanNow" ->
         Branch(D("M16Delete"), D("L17IfLastModifiedGreaterThanMS"))
    [] n = "L17IfLastModifiedGreaterThanMS" ->
         Branch(D("M16Delete"), End(304))
    [] n = "M5Post" ->
         Branch(D("N5PostToMissingResource"), End(410))
    [] n = "M7PostToMissingResource" ->
         Branch(D("N11Redirect"), End(404))
    [] n = "M16Delete" ->
         Branch(D("M20DeleteEnacted"), D("N16Post"))
    [] n = "M20DeleteEnacted" ->
         Branch(D("O20ResponseHasBody"), End(202))
    [] n = "N5PostToMissingResource" ->
         Branch(D("N11Redirect"), End(410))
    [] n = "N11Redirect" ->
         Branch(End(303), D("P11NewResource"))
    [] n = "N16Post" ->
         Branch(D("N11Redirect"), D("O16Put"))
    [] n = "O14Conflict" ->
         Branch(End(409), D("P11NewResource"))
    [] n = "O16Put" ->
         Branch(D("O14Conflict"), D("O18MultipleRepresentations"))
    [] n = "P3Conflict" ->
         Branch(End(409), D("P11NewResource"))
    [] n = "P11NewResource" ->
         Branch(End(201), D("O20ResponseHasBody"))
    [] n = "O18MultipleRepresentations" ->
         Branch(End(300), End(200))
    [] n = "O20ResponseHasBody" ->
         Branch(D("O18MultipleRepresentations"), End(204))

---------------------------------------------------------------------------
(* Helpers of execute_decision (lib.rs) *)

\* What one decision yields: its DecisionResult, the context as it leaves
\* it, and the resource callbacks it invoked, in order.
Outcome(result, ctx, called) == [result |-> result, context |-> ctx, called |-> called]

\* A callback that may write to the context (delete_resource, process_post,
\* create_path, process_put): cb.redirect says that it sets context.redirect,
\* cb.body is the response body it sets, if any, cb.headers the response
\* headers it sets.
AfterCallback(ctx, cb) ==
    [ctx EXCEPT !.redirect = IF cb.redirect THEN TRUE ELSE @,
                !.response.body = IF IsSome(cb.body) THEN cb.body ELSE @,
                !.response.headers =
                    [k \in (DOMAIN @) \cup (DOMAIN cb.headers) |->
                        IF k \in DOMAIN cb.headers THEN cb.headers[k] ELSE @[k]]]

\* DateTime::parse_from_rfc2822.  The parser is chrono's; in the model the
\* well-formed date of the instant n (one digit) is written "t" n, and every
\* other text fails to parse.
parse_from_rfc2822(text) ==
    IF Len(text) = 2 /\ text[1] = "t" /\ IsDigit(text[2])
    THEN Ok(DigitVal(text[2]))
    ELSE Err(0)

\* sanitise_path: the non-empty segments of a path
RECURSIVE NonEmpty(_)
NonEmpty(segments) ==
    IF segments = << >> THEN << >>
    ELSE IF Head(segments) = << >> THEN NonEmpty(Tail(segments))
    ELSE <<Head(segments)>> \o NonEmpty(Tail(segments))

sanitise_path(path) == NonEmpty(Split(path, "/"))

\* Itertools::join("/")
RECURSIVE JoinSlash(_)
JoinSlash(segments) ==
    IF segments = << >> THEN << >>
    ELSE IF Len(segments) = 1 THEN segments[1]
    ELSE segments[1] \o <<"/">> \o JoinSlash(Tail(segments))

\* join_paths
join_paths(base, path) ==
    LET filtered == NonEmpty(base \o path)
    IN IF filtered = << >> THEN <<"/">>
       ELSE LET new_path == JoinSlash(filtered)
            IN IF StartsWith(new_path, <<"/">>) THEN new_path
               ELSE <<"/">> \o new_path

\* resource_etag_matches_header_values: generate_etag is invoked, then find()
\* visits the header values in order and stops at the first that matches; a
\* value that starts with W/ is unwrapped with weak_etag().unwrap(), which
\* panics when weak_etag() is None.
resource_etag_matches_header_values(res, ctx, header) ==
    LET header_values == find_header(ctx.request, header)
        etag == res.generate_etag
        panics(i) == /\ StartsWith(header_values[i].value, <<"W", "/">>)
                     /\ ~IsSome(weak_etag(header_values[i]))
        matches(i) == IF StartsWith(header_values[i].value, <<"W", "/">>)
                      THEN Unwrap(weak_etag(header_values[i])) = Unwrap(etag)
                      ELSE header_values[i].value = Unwrap(etag)
        first == FirstIndex(Len(header_values), LAMBDA i : panics(i) \/ matches(i))
    IN IF ~IsSome(etag) THEN ResultFalse
       ELSE IF first = 0 THEN ResultFalse
       ELSE IF panics(first) THEN ResultPanic
       ELSE ResultTrue

\* validate_header_date: <<valid, the new value of the context's date field>>
validate_header_date(request, header, context_meta) ==
    LET header_values == find_header(request, header)
    IN IF header_values # << >>
       THEN LET parsed == parse_from_rfc2822(header_values[1].value)
            IN IF parsed.tag = "Ok" THEN <<TRUE, Some(parsed.val)>>
               ELSE <<FALSE, context_meta>>
       ELSE <<FALSE, context_meta>>

\* iter().find(|m| m.to_uppercase() == method.to_uppercase()).is_some()
MethodIn(methods, method) ==
    \E i \in 1..Len(methods) : TextUpper(methods[i]) = TextUpper(method)

---------------------------------------------------------------------------
(* execute_decision (lib.rs), one operator per arm of the match *)

\* B10 that compares the method with the allowed methods as they are written
B10MethodAllowed_case_sensitive(ctx, res) ==
    IF \E i \in 1..Len(res.allowed_methods) : res.allowed_methods[i] = ctx.request.method
    THEN Outcome(ResultTrue, ctx, << >>)
    ELSE Outcome(ResultFalse,
            [ctx EXCEPT !.response = add_header(@, "Allow",
                [i \in 1..Len(res.allowed_methods) |-> basic(res.allowed_methods[i])])],
            << >>)


B10MethodAllowed(ctx, res) ==
    IF MethodIn(res.allowed_methods, ctx.request.method)
    THEN Outcome(ResultTrue, ctx, << >>)
    ELSE Outcome(ResultFalse,
            [ctx EXCEPT !.response = add_header(@, "Allow",
                [i \in 1..Len(res.allowed_methods) |-> basic(res.allowed_methods[i])])],
            << >>)

B11UriTooLong(ctx, res) == Outcome(wrap(res.uri_too_long), ctx, <<"uri_too_long">>)

B12KnownMethod(ctx, res) ==
    Outcome(wrap(MethodIn(res.known_methods, ctx.request.method)), ctx, << >>)

B13Available(ctx, res) == Outcome(wrap(res.available), ctx, <<"available">>)

B9MalformedRequest(ctx, res) ==
    Outcome(wrap(res.malformed_request), ctx, <<"malformed_request">>)

\* B8 that reports the missing authorisation without naming the realm
B8Authorized_without_realm(ctx, res) ==
    Outcome(wrap(~IsSome(res.not_authorized)), ctx, <<"not_authorized">>)

B8Authorized(ctx, res) ==
    IF IsSome(res.not_authorized)
    THEN Outcome(ResultFalse,
            [ctx EXCEPT !.response = add_header(@, "WWW-Authenticate",
                <<parse_string(Unwrap(res.not_authorized))>>)],
            <<"not_authorized">>)
    ELSE Outcome(ResultTrue, ctx, <<"not_authorized">>)

B7Forbidden(ctx, res) == Outcome(wrap(res.forbidden), ctx, <<"forbidden">>)

B6UnsupportedContentHeader(ctx, res) ==
    Outcome(wrap(res.unsupported_content_headers), ctx, <<"unsupported_content_headers">>)

\* B5 that compares the content type with the acceptable ones as written
B5UnknownContentType_case_sensitive(ctx, res) ==
    Outcome(wrap(/\ is_put_or_post(ctx.request)
                 /\ ~\E i \in 1..Len(res.acceptable_content_types) :
                        content_type(ctx.request) = res.acceptable_content_types[i]),
            ctx, << >>)


B5UnknownContentType(ctx, res) ==
    Outcome(wrap(/\ is_put_or_post(ctx.request)
                 /\ ~\E i \in 1..Len(res.acceptable_content_types) :
                        TextUpper(content_type(ctx.request))
                            = TextUpper(res.acceptable_content_types[i])),
            ctx, << >>)

\* The && is lazy: valid_entity_length is invoked for PUT and POST only.
B4RequestEntityTooLarge(ctx, res) ==
    IF is_put_or_post(ctx.request)
    THEN Outcome(wrap(~res.valid_entity_length), ctx, <<"valid_entity_length">>)
    ELSE Outcome(ResultFalse, ctx, << >>)

\* B3 that sends every request on to negotiation
B3Options_never(ctx, res) == Outcome(ResultFalse, ctx, << >>)


B3Options(ctx, res) == Outcome(wrap(is_options(ctx.request)), ctx, << >>)

C3AcceptExists(ctx, res) == Outcome(wrap(has_accept_header(ctx.request)), ctx, << >>)

C4AcceptableMediaTypeAvailable(ctx, res) ==
    LET media_type == matching_content_type(res, ctx.request)
    IN IF IsSome(media_type)
       THEN Outcome(ResultTrue, [ctx EXCEPT !.selected_media_type = media_type], << >>)
       ELSE Outcome(ResultFalse, ctx, << >>)

D4AcceptLanguageExists(ctx, res) ==
    Outcome(wrap(has_accept_language_header(ctx.request)), ctx, << >>)

\* D5 that records the language and forgets the header
D5AcceptableLanguageAvailable_no_header(ctx, res) ==
    LET language == matching_language(res, ctx.request)
    IN IF IsSome(language)
       THEN IF Unwrap(language) # TxtStar
            THEN Outcome(ResultTrue, [ctx EXCEPT !.selected_language = language], << >>)
            ELSE Outcome(ResultTrue, ctx, << >>)
       ELSE Outcome(ResultFalse, ctx, << >>)

D5AcceptableLanguageAvailable(ctx, res) ==
    LET language == matching_language(res, ctx.request)
    IN IF IsSome(language)
       THEN IF Unwrap(language) # TxtStar
            THEN Outcome(ResultTrue,
                    [ctx EXCEPT !.selected_language = language,
                                !.response = add_header(@, "Content-Language",
                                    <<parse_string(Unwrap(language))>>)],
                    << >>)
            ELSE Outcome(ResultTrue, ctx, << >>)
       ELSE Outcome(ResultFalse, ctx, << >>)

\* E5 that sends every request to the charset selection
E5AcceptCharsetExists_always(ctx, res) == Outcome(ResultTrue, ctx, << >>)

E5AcceptCharsetExists(ctx, res) ==
    Outcome(wrap(has_accept_charset_header(ctx.request)), ctx, << >>)

E6AcceptableCharsetAvailable(ctx, res) ==
    LET charset == matching_charset(res, ctx.request)
    IN IF IsSome(charset)
       THEN IF Unwrap(charset) # TxtStar
            THEN Outcome(ResultTrue, [ctx EXCEPT !.selected_charset = charset], << >>)
            ELSE Outcome(ResultTrue, ctx, << >>)
       ELSE Outcome(ResultFalse, ctx, << >>)

F6AcceptEncodingExists(ctx, res) ==
    Outcome(wrap(has_accept_encoding_header(ctx.request)), ctx, << >>)

\* F7 that adds the header for identity as well
F7AcceptableEncodingAvailable_always_header(ctx, res) ==
    LET encoding == matching_encoding(res, ctx.request)
    IN IF IsSome(encoding)
       THEN Outcome(ResultTrue,
                [ctx EXCEPT !.selected_encoding = encoding,
                            !.response = add_header(@, "Content-Encoding",
                                <<parse_string(Unwrap(encoding))>>)],
                << >>)
       ELSE Outcome(ResultFalse, ctx, << >>)

F7AcceptableEncodingAvailable(ctx, res) ==
    LET encoding == matching_encoding(res, ctx.request)
    IN IF IsSome(encoding)
       THEN IF Unwrap(encoding) # TxtIdentity
            THEN Outcome(ResultTrue,
                    [ctx EXCEPT !.selected_encoding = encoding,
                                !.response = add_header(@, "Content-Encoding",
                                    <<parse_string(Unwrap(encoding))>>)],
                    << >>)
            ELSE Outcome(ResultTrue, [ctx EXCEPT !.selected_encoding = encoding], << >>)
       ELSE Outcome(ResultFalse, ctx, << >>)

\* resource_exists may, as every callback, write to the context:
\* res.resource_exists_body is the response body it sets, if any.
G7ResourceExists(ctx, res) ==
    Outcome(wrap(res.resource_exists),
            [ctx EXCEPT !.response.body = IF IsSome(res.resource_exists_body)
                                          THEN res.resource_exists_body ELSE @],
            <<"resource_exists">>)

G8IfMatchExists(ctx, res) == Outcome(wrap(has_header(ctx.request, "If-Match")), ctx, << >>)

\* G9IfMatchStarExists | H7IfMatchStarExists
IfMatchStarExists(ctx, res) ==
    Outcome(wrap(has_header_value(ctx.request, "If-Match", TxtStar)), ctx, << >>)

G11EtagInIfMatch(ctx, res) ==
    Outcome(resource_etag_matches_header_values(res, ctx, "If-Match"),
            ctx, <<"generate_etag">>)

H10IfUnmodifiedSinceExists(ctx, res) ==
    Outcome(wrap(has_header(ctx.request, "If-Unmodified-Since")), ctx, << >>)

H11IfUnmodifiedSinceValid(ctx, res) ==
    LET v == validate_header_date(ctx.request, "If-Unmodified-Since",
                                  ctx.if_unmodified_since)
    IN Outcome(wrap(v[1]), [ctx EXCEPT !.if_unmodified_since = v[2]], << >>)

\* H12 that also fails a resource modified at the very date of the header
H12LastModifiedGreaterThanUMS_or_equal(ctx, res) ==
    IF IsSome(ctx.if_unmodified_since)
    THEN IF IsSome(res.last_modified)
         THEN Outcome(wrap(Unwrap(res.last_modified) >= Unwrap(ctx.if_unmodified_since)),
                      ctx, <<"last_modified">>)
         ELSE Outcome(ResultFalse, ctx, <<"last_modified">>)
    ELSE Outcome(ResultFalse, ctx, << >>)

H12LastModifiedGreaterThanUMS(ctx, res) ==
    IF IsSome(ctx.if_unmodified_since)
    THEN IF IsSome(res.last_modified)
         THEN Outcome(wrap(Unwrap(res.last_modified) > Unwrap(ctx.if_unmodified_since)),
                      ctx, <<"last_modified">>)
         ELSE Outcome(ResultFalse, ctx, <<"last_modified">>)
    ELSE Outcome(ResultFalse, ctx, << >>)

I7Put(ctx, res) ==
    IF is_put(ctx.request)
    THEN Outcome(ResultTrue, [ctx EXCEPT !.new_resource = TRUE], << >>)
    ELSE Outcome(ResultFalse, ctx, << >>)

I12IfNoneMatchExists(ctx, res) ==
    Outcome(wrap(has_header(ctx.request, "If-None-Match")), ctx, << >>)

I13IfNoneMatchStarExists(ctx, res) ==
    Outcome(wrap(has_header_value(ctx.request, "If-None-Match", TxtStar)), ctx, << >>)

J18GetHead(ctx, res) == Outcome(wrap(is_get_or_head(ctx.request)), ctx, << >>)

K7ResourcePreviouslyExisted(ctx, res) ==
    Outcome(wrap(res.previously_existed), ctx, <<"previously_existed">>)

K13ETagInIfNoneMatch(ctx, res) ==
    Outcome(resource_etag_matches_header_values(res, ctx, "If-None-Match"),
            ctx, <<"generate_etag">>)

L5HasMovedTemporarily(ctx, res) ==
    IF IsSome(res.moved_temporarily)
    THEN Outcome(ResultTrue,
            [ctx EXCEPT !.response = add_header(@, "Location",
                <<basic(Unwrap(res.moved_temporarily))>>)],
            <<"moved_temporarily">>)
    ELSE Outcome(ResultFalse, ctx, <<"moved_temporarily">>)

\* L7Post | M5Post | N16Post
Post(ctx, res) == Outcome(wrap(is_post(ctx.request)), ctx, << >>)

L13IfModifiedSinceExists(ctx, res) ==
    Outcome(wrap(has_header(ctx.request, "If-Modified-Since")), ctx, << >>)

\* L14 that answers without storing the date it parsed
L14IfModifiedSinceValid_date_not_stored(ctx, res) ==
    Outcome(wrap(validate_header_date(ctx.request, "If-Modified-Since",
                                      ctx.if_modified_since)[1]), ctx, << >>)


L14IfModifiedSinceValid(ctx, res) ==
    LET v == validate_header_date(ctx.request, "If-Modified-Since", ctx.if_modified_since)
    IN Outcome(wrap(v[1]), [ctx EXCEPT !.if_modified_since = v[2]], << >>)

\* L15 that lets a date in the future through
L15IfModifiedSinceGreaterThanNow_never(ctx, res, now) ==
    IF IsSome(ctx.if_modified_since)
    THEN Outcome(ResultFalse, ctx, << >>)
    ELSE Outcome(ResultPanic, ctx, << >>)

\* now is Utc::now(); the unwrap panics when if_modified_since is None.
L15IfModifiedSinceGreaterThanNow(ctx, res, now) ==
    IF IsSome(ctx.if_modified_since)
    THEN Outcome(wrap(Unwrap(ctx.if_modified_since) > now), ctx, << >>)
    ELSE Outcome(ResultPanic, ctx, << >>)

L17IfLastModifiedGreaterThanMS(ctx, res) ==
    IF IsSome(ctx.if_modified_since)
    THEN IF IsSome(res.last_modified)
         THEN Outcome(wrap(Unwrap(res.last_modified) > Unwrap(ctx.if_modified_since)),
                      ctx, <<"last_modified">>)
         ELSE Outcome(ResultFalse, ctx, <<"last_modified">>)
    ELSE Outcome(ResultFalse, ctx, << >>)

\* I4HasMovedPermanently | K5HasMovedPermanently
HasMovedPermanently(ctx, res) ==
    IF IsSome(res.moved_permanently)
    THEN Outcome(ResultTrue,
            [ctx EXCEPT !.response = add_header(@, "Location",
                <<basic(Unwrap(res.moved_permanently))>>)],
            <<"moved_permanently">>)
    ELSE Outcome(ResultFalse, ctx, <<"moved_permanently">>)

\* M7/N5 that leaves context.new_resource as it was
PostToMissingResource_flag_unset(ctx, res) ==
    Outcome(wrap(res.allow_missing_post), ctx, <<"allow_missing_post">>)


\* M7PostToMissingResource | N5PostToMissingResource
PostToMissingResource(ctx, res) ==
    IF res.allow_missing_post
    THEN Outcome(ResultTrue, [ctx EXCEPT !.new_resource = TRUE], <<"allow_missing_post">>)
    ELSE Outcome(ResultFalse, ctx, <<"allow_missing_post">>)

M16Delete(ctx, res) == Outcome(wrap(is_delete(ctx.request)), ctx, << >>)

\* M20 that takes a failed delete for a delete that was not enacted
M20DeleteEnacted_error_as_false(ctx, res) ==
    Outcome(wrap(res.delete_resource.ret.tag = "Ok" /\ res.delete_resource.ret.val),
            AfterCallback(ctx, res.delete_resource), <<"delete_resource">>)

M20DeleteEnacted(ctx, res) ==
    LET after == AfterCallback(ctx, res.delete_resource)
    IN IF res.delete_resource.ret.tag = "Ok"
       THEN Outcome(wrap(res.delete_resource.ret.val), after, <<"delete_resource">>)
       ELSE Outcome(ResultStatusCode(res.delete_resource.ret.val), after,
                    <<"delete_resource">>)

\* N11 that reads context.redirect before the callback is invoked
N11Redirect_redirect_read_first(ctx, res) ==
    IF res.post_is_create
    THEN LET after == AfterCallback(ctx, res.create_path)
             ret == res.create_path.ret
             path == IF ret.tag = "OkRequestPath" THEN ctx.request.request_path ELSE ret.val
         IN IF ret.tag # "Err"
            THEN Outcome(wrap(ctx.redirect),
                    [after EXCEPT !.request.request_path = path,
                                  !.response = add_header(@, "Location",
                                      <<basic(join_paths(sanitise_path(after.request.base_path),
                                                         sanitise_path(path)))>>)],
                    <<"post_is_create", "create_path">>)
            ELSE Outcome(ResultStatusCode(ret.val), after,
                         <<"post_is_create", "create_path">>)
    ELSE IF res.process_post.ret.tag = "Ok"
         THEN Outcome(wrap(ctx.redirect), AfterCallback(ctx, res.process_post),
                      <<"post_is_create", "process_post">>)
         ELSE Outcome(ResultStatusCode(res.process_post.ret.val),
                      AfterCallback(ctx, res.process_post),
                      <<"post_is_create", "process_post">>)


\* create_path's default returns context.request.request_path (tag "OkRequestPath").
N11Redirect(ctx, res) ==
    IF res.post_is_create
    THEN LET after == AfterCallback(ctx, res.create_path)
             ret == res.create_path.ret
             path == IF ret.tag = "OkRequestPath" THEN ctx.request.request_path ELSE ret.val
         IN IF ret.tag # "Err"
            THEN LET base_path == sanitise_path(after.request.base_path)
                     new_path == join_paths(base_path, sanitise_path(path))
                     moved == [after EXCEPT !.request.request_path = path,
                                            !.response =
                                                add_header(@, "Location", <<basic(new_path)>>)]
                 IN Outcome(wrap(moved.redirect), moved, <<"post_is_create", "create_path">>)
            ELSE Outcome(ResultStatusCode(ret.val), after,
                         <<"post_is_create", "create_path">>)
    ELSE LET after == AfterCallback(ctx, res.process_post)
         IN IF res.process_post.ret.tag = "Ok"
            THEN Outcome(wrap(after.redirect), after, <<"post_is_create", "process_post">>)
            ELSE Outcome(ResultStatusCode(res.process_post.ret.val), after,
                         <<"post_is_create", "process_post">>)

\* P3Conflict | O14Conflict
Conflict(ctx, res) == Outcome(wrap(res.is_conflict), ctx, <<"is_conflict">>)

\* P11 that drops what process_put wrote to the context
P11NewResource_writes_dropped(ctx, res) ==
    IF is_put(ctx.request)
    THEN IF res.process_put.ret.tag = "Ok"
         THEN Outcome(wrap(ctx.new_resource), ctx, <<"process_put">>)
         ELSE Outcome(ResultStatusCode(res.process_put.ret.val), ctx, <<"process_put">>)
    ELSE Outcome(wrap(ctx.new_resource), ctx, << >>)


P11NewResource(ctx, res) ==
    IF is_put(ctx.request)
    THEN LET after == AfterCallback(ctx, res.process_put)
         IN IF res.process_put.ret.tag = "Ok"
            THEN Outcome(wrap(after.new_resource), after, <<"process_put">>)
            ELSE Outcome(ResultStatusCode(res.process_put.ret.val), after, <<"process_put">>)
    ELSE Outcome(wrap(ctx.new_resource), ctx, << >>)

O16Put(ctx, res) == Outcome(wrap(is_put(ctx.request)), ctx, << >>)

O18MultipleRepresentations(ctx, res) ==
    Outcome(wrap(res.multiple_choices), ctx, <<"multiple_choices">>)

\* O20 that takes an empty body for a body
O20ResponseHasBody_empty_counts(ctx, res) ==
    Outcome(wrap(IsSome(ctx.response.body)), ctx, << >>)


O20ResponseHasBody(ctx, res) == Outcome(wrap(has_body(ctx.response)), ctx, << >>)

\* The decisions with an arm of their own in execute_decision; the others
\* take the default arm, which answers false
DecisionArms ==
    {"B10MethodAllowed",
     "B11UriTooLong",
     "B12KnownMethod",
     "B13Available",
     "B3Options",
     "B4RequestEntityTooLarge",
     "B5UnknownContentType",
     "B6UnsupportedContentHeader",
     "B7Forbidden",
     "B8Authorized",
     "B9MalformedRequest",
     "C3AcceptExists",
     "C4AcceptableMediaTypeAvailable",
     "D4AcceptLanguageExists",
     "D5AcceptableLanguageAvailable",
     "E5AcceptCharsetExists",
     "E6AcceptableCharsetAvailable",
     "F6AcceptEncodingExists",
     "F7AcceptableEncodingAvailable",
     "G11EtagInIfMatch",
     "G7ResourceExists",
     "G8IfMatchExists",
     "G9IfMatchStarExists",
     "H10IfUnmodifiedSinceExists",
     "H11IfUnmodifiedSinceValid",
     "H12LastModifiedGreaterThanUMS",
     "H7IfMatchStarExists",
     "I12IfNoneMatchExists",
     "I13IfNoneMatchStarExists",
     "I4HasMovedPermanently",
     "I7Put",
     "J18GetHead",
     "K13ETagInIfNoneMatch",
     "K5HasMovedPermanently",
     "K7ResourcePreviouslyExisted",
     "L13IfModifiedSinceExists",
     "L14IfModifiedSinceValid",
     "L15IfModifiedSinceGreaterThanNow",
     "L17IfLastModifiedGreaterThanMS",
     "L5HasMovedTemporarily",
     "L7Post",
     "M16Delete",
     "M20DeleteEnacted",
     "M5Post",
     "M7PostToMissingResource",
     "N11Redirect",
     "N16Post",
     "N5PostToMissingResource",
     "O14Conflict",
     "O16Put",
     "O18MultipleRepresentations",
     "O20ResponseHasBody",
     "P11NewResource",
     "P3Conflict"}


execute_decision(decision, ctx, res, now) ==
    LET n == decision.node
    IN CASE n = "B10MethodAllowed" -> B10MethodAllowed(ctx, res)
         [] n = "B11UriTooLong" -> B11UriTooLong(ctx, res)
         [] n = "B12KnownMethod" -> B12KnownMethod(ctx, res)
         [] n = "B13Available" -> B13Available(ctx, res)
         [] n = "B9MalformedRequest" -> B9MalformedRequest(ctx, res)
         [] n = "B8Authorized" -> B8Authorized(ctx, res)
         [] n = "B7Forbidden" -> B7Forbidden(ctx, res)
         [] n = "B6UnsupportedContentHeader" -> B6UnsupportedContentHeader(ctx, res)
         [] n = "B5UnknownContentType" -> B5UnknownContentType(ctx, res)
         [] n = "B4RequestEntityTooLarge" -> B4RequestEntityTooLarge(ctx, res)
         [] n = "B3Options" -> B3Options(ctx, res)
         [] n = "C3AcceptExists" -> C3AcceptExists(ctx, res)
         [] n = "C4AcceptableMediaTypeAvailable" -> C4AcceptableMediaTypeAvailable(ctx, res)
         [] n = "D4AcceptLanguageExists" -> D4AcceptLanguageExists(ctx, res)
         [] n = "D5AcceptableLanguageAvailable" -> D5AcceptableLanguageAvailable(ctx, res)
         [] n = "E5AcceptCharsetExists" -> E5AcceptCharsetExists(ctx, res)
         [] n = "E6AcceptableCharsetAvailable" -> E6AcceptableCharsetAvailable(ctx, res)
         [] n = "F6AcceptEncodingExists" -> F6AcceptEncodingExists(ctx, res)
         [] n = "F7AcceptableEncodingAvailable" -> F7AcceptableEncodingAvailable(ctx, res)
         [] n = "G7ResourceExists" -> G7ResourceExists(ctx, res)
         [] n = "G8IfMatchExists" -> G8IfMatchExists(ctx, res)
         [] n \in {"G9IfMatchStarExists", "H7IfMatchStarExists"} -> IfMatchStarExists(ctx, res)
         [] n = "G11EtagInIfMatch" -> G11EtagInIfMatch(ctx, res)
         [] n = "H10IfUnmodifiedSinceExists" -> H10IfUnmodifiedSinceExists(ctx, res)
         [] n = "H11IfUnmodifiedSinceValid" -> H11IfUnmodifiedSinceValid(ctx, res)
         [] n = "H12LastModifiedGreaterThanUMS" -> H12LastModifiedGreaterThanUMS(ctx, res)
         [] n = "I7Put" -> I7Put(ctx, res)
         [] n = "I12IfNoneMatchExists" -> I12IfNoneMatchExists(ctx, res)
         [] n = "I13IfNoneMatchStarExists" -> I13IfNoneMatchStarExists(ctx, res)
         [] n = "J18GetHead" -> J18GetHead(ctx, res)
         [] n = "K7ResourcePreviouslyExisted" -> K7ResourcePreviouslyExisted(ctx, res)
         [] n = "K13ETagInIfNoneMatch" -> K13ETagInIfNoneMatch(ctx, res)
         [] n = "L5HasMovedTemporarily" -> L5HasMovedTemporarily(ctx, res)
         [] n \in {"L7Post", "M5Post", "N16Post"} -> Post(ctx, res)
         [] n = "L13IfModifiedSinceExists" -> L13IfModifiedSinceExists(ctx, res)
         [] n = "L14IfModifiedSinceValid" -> L14IfModifiedSinceValid(ctx, res)
         [] n = "L15IfModifiedSinceGreaterThanNow" ->
                L15IfModifiedSinceGreaterThanNow(ctx, res, now)
         [] n = "L17IfLastModifiedGreaterThanMS" -> L17IfLastModifiedGreaterThanMS(ctx, res)
         [] n \in {"I4HasMovedPermanently", "K5HasMovedPermanently"} ->
                HasMovedPermanently(ctx, res)
         [] n \in {"M7PostToMissingResource", "N5PostToMissingResource"} ->
                PostToMissingResource(ctx, res)
         [] n = "M16Delete" -> M16Delete(ctx, res)
         [] n = "M20DeleteEnacted" -> M20DeleteEnacted(ctx, res)
         [] n = "N11Redirect" -> N11Redirect(ctx, res)
         [] n \in {"P3Conflict", "O14Conflict"} -> Conflict(ctx, res)
         [] n = "P11NewResource" -> P11NewResource(ctx, res)
         [] n = "O16Put" -> O16Put(ctx, res)
         [] n = "O18MultipleRepresentations" -> O18MultipleRepresentations(ctx, res)
         [] n = "O20ResponseHasBody" -> O20ResponseHasBody(ctx, res)
         [] OTHER -> Outcome(ResultFalse, ctx, << >>)

\* A transition map that goes on to If-None-Match when the resource was
\* modified after If-Unmodified-Since
transition_get_unmodified_ignored(decision) ==
    IF decision.node = "H12LastModifiedGreaterThanUMS"
    THEN Some(Branch(D("I12IfNoneMatchExists"), D("I12IfNoneMatchExists")))
    ELSE IF decision.node \in TransitionKeys
    THEN Some(TRANSITION_MAP(decision.node))
    ELSE None

\* A transition map with a wrong edge: a resource that has not moved
\* temporarily is asked again whether it previously existed.
transition_get_cyclic(decision) ==
    IF decision.node = "L5HasMovedTemporarily"
    THEN Some(Branch(End(307), D("K7ResourcePreviouslyExisted")))
    ELSE IF decision.node \in TransitionKeys
    THEN Some(TRANSITION_MAP(decision.node))
    ELSE None

\* A transition map without the entry of M16Delete
transition_get_missing_entry(decision) ==
    IF decision.node \in TransitionKeys \ {"M16Delete"}
    THEN Some(TRANSITION_MAP(decision.node))
    ELSE None


\* TRANSITION_MAP.get(&state)
transition_get(decision) ==
    IF decision.node \in TransitionKeys THEN Some(TRANSITION_MAP(decision.node)) ELSE None

---------------------------------------------------------------------------
(* Defaults (Request::default, Response::default, Context::default,
   Resource::default) *)

EmptyMap == << >>

\* A callback that returns ret and writes nothing to the context
Pure(ret) == [ret |-> ret, redirect |-> FALSE, body |-> None, headers |-> EmptyMap]

DefaultRequest ==
    [request_path |-> <<"/">>,
     base_path |-> <<"/">>,
     method |-> <<"G","E","T">>,
     headers |-> EmptyMap,
     body |-> None,
     query |-> EmptyMap]

DefaultResponse == [status |-> 200, headers |-> EmptyMap, body |-> None]

DefaultContext ==
    [request |-> DefaultRequest,
     response |-> DefaultResponse,
     selected_media_type |-> None,
     selected_language |-> None,
     selected_charset |-> None,
     selected_encoding |-> None,
     if_unmodified_since |-> None,
     if_modified_since |-> None,
     redirect |-> FALSE,
     new_resource |-> FALSE]

DefaultResource ==
    [available |-> TRUE,
     known_methods |-> <<<<"O","P","T","I","O","N","S">>, <<"G","E","T">>, <<"P","O","S","T">>, <<"P","U","T">>, <<"D","E","L","E","T","E">>,
                         <<"H","E","A","D">>, <<"T","R","A","C","E">>, <<"C","O","N","N","E","C","T">>, <<"P","A","T","C","H">>>>,
     uri_too_long |-> FALSE,
     allowed_methods |-> <<<<"O","P","T","I","O","N","S">>, <<"G","E","T">>, <<"H","E","A","D">>>>,
     malformed_request |-> FALSE,
     not_authorized |-> None,
     forbidden |-> FALSE,
     unsupported_content_headers |-> FALSE,
     acceptable_content_types |-> <<TxtApplicationJson>>,
     valid_entity_length |-> TRUE,
     options |-> "cors",
     produces |-> <<TxtApplicationJson>>,
     languages_provided |-> << >>,
     charsets_provided |-> << >>,
     encodings_provided |-> <<TxtIdentity>>,
     variances |-> << >>,
     resource_exists |-> TRUE,
     resource_exists_body |-> None,
     previously_existed |-> FALSE,
     moved_permanently |-> None,
     moved_temporarily |-> None,
     is_conflict |-> FALSE,
     allow_missing_post |-> FALSE,
     generate_etag |-> None,
     last_modified |-> None,
     delete_resource |-> Pure(Ok(TRUE)),
     post_is_create |-> FALSE,
     process_post |-> Pure(Ok(FALSE)),
     process_put |-> Pure(Ok(TRUE)),
     multiple_choices |-> FALSE,
     create_path |-> Pure([tag |-> "OkRequestPath", val |-> 0]),
     expires |-> None,
     render_response |-> None,
     finalise_response |-> None]

\* Response::cors_headers
cors_headers(allowed_methods) ==
    [k \in {"Access-Control-Allow-Origin", "Access-Control-Allow-Methods",
            "Access-Control-Allow-Headers"} |->
        IF k = "Access-Control-Allow-Origin" THEN <<TxtStar>>
        ELSE IF k = "Access-Control-Allow-Methods" THEN allowed_methods
        ELSE <<<<"C","o","n","t","e","n","t","-","T","y","p","e">>>>]

\* Response::add_headers
add_headers(response, headers) ==
    [response EXCEPT !.headers =
        [k \in (DOMAIN response.headers) \cup (DOMAIN headers) |->
            IF k \in DOMAIN headers
            THEN [i \in 1..Len(headers[k]) |-> basic(headers[k][i])]
            ELSE response.headers[k]]]

\* The mapping a resource's own options callback returns ("custom")
CustomOptions == ("A" :> <<<<"B">>>>) @@ ("C" :> <<<<"D",";","E","=","F">>>>)

\* The options callback: the default returns the CORS headers of the
\* resource ("cors"); "none" is a callback that returns None, "custom" one
\* that returns a mapping of its own.
options(res) ==
    IF res.options = "cors" THEN Some(cors_headers(res.allowed_methods))
    ELSE IF res.options = "custom" THEN Some(CustomOptions)
    ELSE None

---------------------------------------------------------------------------
(* execute_state_machine (lib.rs) *)

\* The instants Utc::now() may read
MaxTime == 3
Times == 1..MaxTime

\* One iteration of the while loop
Step ==
    /\ pc = "running"
    /\ ~is_terminal(state)
    /\ loop_count' = loop_count + 1
    /\ UNCHANGED <<resource, routes, uri_path, uri_query, tasks, owner>>
    /\ IF loop_count + 1 >= MAX_STATE_MACHINE_TRANSITIONS
       THEN /\ pc' = "panic_loop"
            /\ UNCHANGED <<context, state, decisions, calls, utc_now>>
       ELSE LET transition == transition_get(state)
            IN IF ~IsSome(transition)
               THEN /\ decisions' = Append(decisions, <<state, FALSE, End(500)>>)
                    /\ state' = End(500)
                    /\ UNCHANGED <<context, calls, utc_now, pc>>
               ELSE IF Unwrap(transition).kind = "To"
               THEN /\ state' = Unwrap(transition).t
                    /\ UNCHANGED <<context, decisions, calls, utc_now, pc>>
               ELSE \E now \in (IF state.node = "L15IfModifiedSinceGreaterThanNow"
                                THEN Times ELSE {0}) :
                    LET out == execute_decision(state, context, resource, now)
                        next == CASE out.result.kind = "True" -> Unwrap(transition).t
                                  [] out.result.kind = "False" -> Unwrap(transition).f
                                  [] out.result.kind = "StatusCode" -> End(out.result.code)
                                  [] OTHER -> state
                    IN /\ calls' = calls \o out.called
                       /\ utc_now' = IF state.node = "L15IfModifiedSinceGreaterThanNow"
                                     THEN Some(now) ELSE utc_now
                       /\ IF out.result.kind = "Panic"
                          THEN /\ pc' = "panic_unwrap"
                               /\ UNCHANGED <<context, state, decisions>>
                          ELSE /\ context' = out.context
                               /\ decisions' = Append(decisions,
                                      <<state, out.result.kind = "True", next>>)
                               /\ state' = next
                               /\ pc' = pc

\* After the loop: the final state sets the status, A3Options adds the
\* headers of the options callback.
Finish ==
    /\ pc = "running"
    /\ is_terminal(state)
    /\ IF state.node = "End"
       THEN /\ context' = [context EXCEPT !.response.status = state.code]
            /\ UNCHANGED calls
       ELSE /\ context' =
                  LET with_status == [context EXCEPT !.response.status = 204]
                  IN IF IsSome(options(resource))
                     THEN [with_status EXCEPT
                              !.response = add_headers(@, Unwrap(options(resource)))]
                     ELSE with_status
            /\ calls' = Append(calls, "options")
    /\ pc' = "done"
    /\ UNCHANGED <<resource, state, loop_count, decisions, utc_now, routes, uri_path, uri_query, tasks, owner>>

---------------------------------------------------------------------------
(* finalise_response (lib.rs) *)

\* h!(raw): a header value parsed from its text
h(raw) == parse_string(raw)

\* DateTime::to_rfc2822: the text of the instant k
to_rfc2822(k) == <<"t", Digits[k + 1]>>

\* HeaderValue::quote
quote(hv) == [hv EXCEPT !.quote = TRUE]

\* finalise_response that names the charset only when one was selected
WithContentType_charset_if_selected(ctx) ==
    IF response_has_header(ctx.response, "Content-Type") THEN ctx
    ELSE [ctx EXCEPT !.response = add_header(@, "Content-Type",
             <<[value  |-> IF IsSome(ctx.selected_media_type)
                           THEN Unwrap(ctx.selected_media_type)
                           ELSE TxtApplicationJson,
                params |-> IF IsSome(ctx.selected_charset)
                           THEN <<<<<<"c","h","a","r","s","e","t">>, Unwrap(ctx.selected_charset)>>>>
                           ELSE << >>,
                quote  |-> FALSE]>>)]


\* The Content-Type header, unless the response has one: the selected media
\* type and charset, or their defaults
WithContentType(ctx) ==
    IF response_has_header(ctx.response, "Content-Type") THEN ctx
    ELSE [ctx EXCEPT !.response = add_header(@, "Content-Type",
             <<[value  |-> IF IsSome(ctx.selected_media_type)
                           THEN Unwrap(ctx.selected_media_type)
                           ELSE TxtApplicationJson,
                params |-> <<<<<<"c","h","a","r","s","e","t">>,
                              IF IsSome(ctx.selected_charset)
                              THEN Unwrap(ctx.selected_charset)
                              ELSE TxtIso88591>>>>,
                quote  |-> FALSE]>>)]

\* vary_header: the variances unless Vary is set, then the Accept* headers
\* the resource has more than one choice for
VaryHeader(ctx, res) ==
    (IF response_has_header(ctx.response, "Vary") THEN << >>
     ELSE [i \in 1..Len(res.variances) |-> parse_string(res.variances[i])])
    \o (IF Len(res.languages_provided) > 1 THEN <<h(<<"A","c","c","e","p","t","-","L","a","n","g","u","a","g","e">>)>> ELSE << >>)
    \o (IF Len(res.charsets_provided) > 1 THEN <<h(<<"A","c","c","e","p","t","-","C","h","a","r","s","e","t">>)>> ELSE << >>)
    \o (IF Len(res.encodings_provided) > 1 THEN <<h(<<"A","c","c","e","p","t","-","E","n","c","o","d","i","n","g">>)>> ELSE << >>)
    \o (IF Len(res.produces) > 1 THEN <<h(<<"A","c","c","e","p","t">>)>> ELSE << >>)

\* Itertools::unique: the first occurrence of every element, in order
KeptIndexes(s) == {i \in 1..Len(s) : \A j \in 1..(i - 1) : s[j] # s[i]}
KeptAt(kept, n) == CHOOSE i \in kept : Cardinality({m \in kept : m < i}) = n - 1
Unique(s) == [n \in 1..Cardinality(KeptIndexes(s)) |-> s[KeptAt(KeptIndexes(s), n)]]

\* finalise_response that counts the entries of vary_header after unique()
WithVary_distinct_counted(ctx, res) ==
    IF Len(Unique(VaryHeader(ctx, res))) > 1
    THEN [ctx EXCEPT !.response = add_header(@, "Vary", Unique(VaryHeader(ctx, res)))]
    ELSE ctx


\* The Vary header, when vary_header has more than one entry
WithVary(ctx, res) ==
    IF Len(VaryHeader(ctx, res)) > 1
    THEN [ctx EXCEPT !.response = add_header(@, "Vary", Unique(VaryHeader(ctx, res)))]
    ELSE ctx

\* One validator header of a GET or HEAD: the callback's value, quoted
WithValidator(ctx, header, value) ==
    IF IsSome(value)
    THEN [ctx EXCEPT !.response = add_header(@, header, <<quote(basic(Unwrap(value)))>>)]
    ELSE ctx

DateTextOf(datetime) == IF IsSome(datetime) THEN Some(to_rfc2822(Unwrap(datetime))) ELSE None

\* ETag, Expires and Last-Modified of a GET or HEAD
WithValidators(ctx, res) ==
    IF is_get_or_head(ctx.request)
    THEN WithValidator(
             WithValidator(
                 WithValidator(ctx, "ETag", res.generate_etag),
                 "Expires", DateTextOf(res.expires)),
             "Last-Modified", DateTextOf(res.last_modified))
    ELSE ctx

\* String::into_bytes: the UTF-8 bytes of a text, one byte for an ASCII
\* character and two for the others of the model
Utf8(c) ==
    CASE c = "h" -> <<104>>
      [] c = "i" -> <<105>>
      [] c = "é" -> <<195, 169>>
      [] OTHER -> <<63>>

RECURSIVE into_bytes(_)
into_bytes(text) ==
    IF text = << >> THEN << >> ELSE Utf8(Head(text)) \o into_bytes(Tail(text))

\* finalise_response that asks render_response whatever the method
Renders_any_method(ctx) ==
    ctx.response.body = None /\ ctx.response.status = 200

\* render_response is asked for the body of a GET that ended 200 without one
Renders(ctx) ==
    ctx.response.body = None /\ ctx.response.status = 200 /\ is_get(ctx.request)

WithRenderedBody(ctx, res) ==
    IF Renders(ctx) /\ IsSome(res.render_response)
    THEN [ctx EXCEPT !.response.body = Some(into_bytes(Unwrap(res.render_response)))]
    ELSE ctx

\* The callbacks finalise_response invokes, in order
FinaliseCalls(ctx, res) ==
    (IF is_get_or_head(ctx.request)
     THEN <<"generate_etag", "expires", "last_modified">> ELSE << >>)
    \o (IF Renders(ctx) THEN <<"render_response">> ELSE << >>)
    \o (IF IsSome(res.finalise_response) THEN <<"finalise_response">> ELSE << >>)

\* finalise_response: the context as it leaves it
finalise_response(ctx, res) ==
    WithRenderedBody(WithValidators(WithVary(WithContentType(ctx), res), res), res)

\* The finalizer runs once execute_state_machine has returned
Finalise ==
    /\ pc = "done"
    /\ context' = finalise_response(context, resource)
    /\ calls' = calls \o FinaliseCalls(context, resource)
    /\ pc' = "finalised"
    /\ UNCHANGED <<resource, state, loop_count, decisions, utc_now, routes, uri_path, uri_query, tasks, owner>>

Next == Step \/ Finish \/ Finalise

---------------------------------------------------------------------------
(* The callback mutexes (lib.rs): a Callback is an Arc<Mutex<Box<dyn Fn>>>,
   and the engine locks the mutex of a callback to invoke it.  What the
   engine does with the mutexes for one request is a sequence of operations
   <<"lock", c>>, <<"call", c>>, <<"unlock", c>>: the guard is taken with
   lock().await, the callback is invoked and awaited, the guard is dropped
   at the end of its scope. *)

\* let callback = resource.c.lock().await; callback.deref()(..).await, in a
\* scope of its own, for each callback of the list in turn
RECURSIVE Scoped(_)
Scoped(callbacks) ==
    IF callbacks = << >> THEN << >>
    ELSE <<<<"lock", Head(callbacks)>>, <<"call", Head(callbacks)>>,
           <<"unlock", Head(callbacks)>>>> \o Scoped(Tail(callbacks))

\* N11: the guard of post_is_create lives to the end of the arm, so the
\* mutex of create_path or process_post is locked, and the callback invoked,
\* while it is held
N11_ops(called) ==
    <<<<"lock", "post_is_create">>, <<"call", "post_is_create">>,
      <<"lock", called[2]>>, <<"call", called[2]>>, <<"unlock", called[2]>>,
      <<"unlock", "post_is_create">>>>

\* The mutex operations of one decision, given the callbacks it invoked: B4
\* locks valid_entity_length for every method and invokes it for PUT and
\* POST only
decision_ops(decision, called) ==
    IF decision.node = "N11Redirect" THEN N11_ops(called)
    ELSE IF decision.node = "B4RequestEntityTooLarge" /\ called = << >>
    THEN <<<<"lock", "valid_entity_length">>, <<"unlock", "valid_entity_length">>>>
    ELSE Scoped(called)

\* The mutex operations after the loop and in finalise_response, for the
\* context ctx the state machine left and its final state
final_ops(decision, ctx, res) ==
    IF decision.node = "End"
    THEN Scoped(FinaliseCalls([ctx EXCEPT !.response.status = decision.code], res))
    ELSE Scoped(<<"options">>)
         \o Scoped(FinaliseCalls([ctx EXCEPT !.response.status = 204], res))

\* The mutex operations of execute_state_machine and finalise_response from
\* the state `decision` on; a decision that panics ends them
RECURSIVE machine_ops(_, _, _)
machine_ops(decision, ctx, res) ==
    IF is_terminal(decision) THEN final_ops(decision, ctx, res)
    ELSE IF ~IsSome(transition_get(decision)) THEN machine_ops(End(500), ctx, res)
    ELSE IF Unwrap(transition_get(decision)).kind = "To"
    THEN machine_ops(Unwrap(transition_get(decision)).t, ctx, res)
    ELSE LET out == execute_decision(decision, ctx, res, 1)
         IN IF out.result.kind = "Panic" THEN << >>
            ELSE decision_ops(decision, out.called)
                 \o machine_ops(
                        CASE out.result.kind = "True" -> Unwrap(transition_get(decision)).t
                          [] out.result.kind = "False" -> Unwrap(transition_get(decision)).f
                          [] OTHER -> End(out.result.code),
                        out.context, res)

\* The mutexes of a Resource, one per callback
Mutexes ==
    {"available", "uri_too_long", "malformed_request", "not_authorized",
     "forbidden", "unsupported_content_headers", "valid_entity_length",
     "finish_request", "options", "resource_exists", "previously_existed",
     "moved_permanently", "moved_temporarily", "is_conflict",
     "allow_missing_post", "generate_etag", "last_modified", "expires",
     "delete_resource", "post_is_create", "process_post", "create_path",
     "process_put", "multiple_choices", "render_response", "finalise_response"}

\* The operation the request t does next
Pending(t) == tasks[t].pos <= Len(tasks[t].ops)
NextOp(t) == tasks[t].ops[tasks[t].pos]

\* A lock that is taken whoever holds the mutex
Lock_without_waiting(t) ==
    /\ pc = "serving"
    /\ Pending(t)
    /\ NextOp(t)[1] = "lock"
    /\ owner' = [owner EXCEPT ![NextOp(t)[2]] = t]
    /\ tasks' = [tasks EXCEPT ![t].pos = @ + 1]
    /\ UNCHANGED <<context, resource, state, loop_count, decisions, calls, utc_now,
                   pc, routes, uri_path, uri_query>>


\* lock().await: the request takes the mutex when no request holds it, and
\* waits as long as one does
Lock(t) ==
    /\ pc = "serving"
    /\ Pending(t)
    /\ NextOp(t)[1] = "lock"
    /\ owner[NextOp(t)[2]] = 0
    /\ owner' = [owner EXCEPT ![NextOp(t)[2]] = t]
    /\ tasks' = [tasks EXCEPT ![t].pos = @ + 1]
    /\ UNCHANGED <<context, resource, state, loop_count, decisions, calls, utc_now,
                   pc, routes, uri_path, uri_query>>

\* callback.deref()(context, resource).await: the invocation, from the call
\* to the end of the future it returns
Call(t) ==
    /\ pc = "serving"
    /\ Pending(t)
    /\ NextOp(t)[1] = "call"
    /\ tasks' = [tasks EXCEPT ![t].pos = @ + 1]
    /\ UNCHANGED <<context, resource, state, loop_count, decisions, calls, utc_now,
                   pc, routes, uri_path, uri_query, owner>>

\* The guard goes out of scope
Unlock(t) ==
    /\ pc = "serving"
    /\ Pending(t)
    /\ NextOp(t)[1] = "unlock"
    /\ owner' = [owner EXCEPT ![NextOp(t)[2]] = 0]
    /\ tasks' = [tasks EXCEPT ![t].pos = @ + 1]
    /\ UNCHANGED <<context, resource, state, loop_count, decisions, calls, utc_now,
                   pc, routes, uri_path, uri_query>>

\* One request goes on
Serve(t) == Lock(t) \/ Call(t) \/ Unlock(t)

\* The requests that share the Resource, in any interleaving
NextShared == \E t \in DOMAIN tasks : Serve(t)


---------------------------------------------------------------------------
(* The query string (lib.rs) *)

\* The value of a hexadecimal digit, -1 for any other character
HexValue(c) ==
    CASE c = "0" -> 0 [] c = "1" -> 1 [] c = "2" -> 2 [] c = "3" -> 3
      [] c = "4" -> 4 [] c = "5" -> 5 [] c = "6" -> 6 [] c = "7" -> 7
      [] c = "8" -> 8 [] c = "9" -> 9
      [] c \in {"a", "A"} -> 10 [] c \in {"b", "B"} -> 11
      [] c \in {"c", "C"} -> 12 [] c \in {"d", "D"} -> 13
      [] c \in {"e", "E"} -> 14 [] c \in {"f", "F"} -> 15
      [] OTHER -> -1

\* hex::decode of two characters: the byte, or an error
hex_decode(v1, v2) ==
    IF HexValue(v1) >= 0 /\ HexValue(v2) >= 0
    THEN Ok(16 * HexValue(v1) + HexValue(v2))
    ELSE Err("InvalidHexCharacter")

\* `n as char` for the bytes the escapes of the model encode
AsChar(n) ==
    CASE n = 0 -> "NUL" [] n = 2 -> "STX" [] n = 32 -> " " [] n = 34 -> DQ
      [] n = 37 -> "%" [] n = 38 -> "&" [] n = 43 -> "+" [] n = 61 -> "="
      [] n = 65 -> "A" [] n = 107 -> "k"

\* decode_query that keeps '+' as it is
RECURSIVE decode_query_plus_kept(_)
decode_query_plus_kept(query) ==
    IF query = << >> THEN << >>
    ELSE IF Head(query) = "%"
    THEN IF Len(query) >= 3
         THEN (IF hex_decode(query[2], query[3]).tag = "Ok"
               THEN <<AsChar(hex_decode(query[2], query[3]).val)>>
               ELSE <<"%", query[2], query[3]>>)
              \o decode_query_plus_kept(SubSeq(query, 4, Len(query)))
         ELSE query
    ELSE <<Head(query)>> \o decode_query_plus_kept(Tail(query))

\* decode_query
RECURSIVE decode_query(_)
decode_query(query) ==
    IF query = << >> THEN << >>
    ELSE IF Head(query) = "%"
    THEN IF Len(query) >= 3
         THEN (IF hex_decode(query[2], query[3]).tag = "Ok"
               THEN <<AsChar(hex_decode(query[2], query[3]).val)>>
               ELSE <<"%", query[2], query[3]>>)
              \o decode_query(SubSeq(query, 4, Len(query)))
         ELSE IF Len(query) = 2 THEN <<"%", query[2]>>
         ELSE <<"%">>
    ELSE IF Head(query) = "+" THEN <<" ">> \o decode_query(Tail(query))
    ELSE <<Head(query)>> \o decode_query(Tail(query))

\* parse_query, the map step: the name and the value of a token
name_value(kv) ==
    IF kv = << >> THEN << >>
    ELSE IF Contains(kv, "=") THEN Splitn2(kv, "=")
    ELSE <<kv>>

\* parse_query, the fold step: map.entry(name).or_insert(vec![]).push(value)
RECURSIVE fold_query(_, _)
fold_query(map, name_values) ==
    IF name_values = << >> THEN map
    ELSE IF Head(name_values) = << >> THEN fold_query(map, Tail(name_values))
    ELSE fold_query(
             IF decode_query(Head(name_values)[1]) \in DOMAIN map
             THEN [map EXCEPT ![decode_query(Head(name_values)[1])] =
                      Append(@, IF Len(Head(name_values)) > 1
                                THEN decode_query(Head(name_values)[2]) ELSE << >>)]
             ELSE map @@ (decode_query(Head(name_values)[1]) :>
                             <<IF Len(Head(name_values)) > 1
                               THEN decode_query(Head(name_values)[2]) ELSE << >>>>),
             Tail(name_values))

\* parse_query
parse_query(query) ==
    IF query # << >>
    THEN fold_query(EmptyMap, [i \in 1..Len(Split(query, "&")) |->
                                  name_value(Split(query, "&")[i])])
    ELSE EmptyMap


---------------------------------------------------------------------------
(* Dispatcher (dispatcher.rs) *)

\* Dispatcher::match_paths: the keys of the routes, in the order of the map,
\* whose segments the segments of the request path start with
match_paths(rts, request) ==
    SelectSeq([i \in 1..Len(rts) |-> rts[i].path],
              LAMBDA k : StartsWith(sanitise_path(request.request_path),
                                    sanitise_path(k)))

\* sorted_by(|a, b| Ord::cmp(&b.len(), &a.len())): a stable sort, the longest
\* string first
ordered_by_length(paths) ==
    StableSortByKey(paths, [i \in 1..Len(paths) |-> 0 - Len(paths[i])])

\* Dispatcher::lookup_resource
lookup_resource(rts, path) ==
    Nth([i \in 1..Len(rts) |-> rts[i].resource],
        FirstIndex(Len(rts), LAMBDA i : rts[i].path = path))

\* update_paths_for_resource
update_paths_for_resource(request, base_path) ==
    [request EXCEPT
        !.base_path = base_path,
        !.request_path =
            IF Len(@) > Len(base_path)
            THEN IF StartsWith(SubSeq(@, Len(base_path) + 1, Len(@)), <<"/">>)
                 THEN SubSeq(@, Len(base_path) + 1, Len(@))
                 ELSE <<"/">> \o SubSeq(@, Len(base_path) + 1, Len(@))
            ELSE <<"/">>]

\* The route dispatch_to_resource chooses, none when no route matches
chosen_route(rts, request) ==
    IF match_paths(rts, request) = << >> THEN None
    ELSE Some(Head(ordered_by_length(match_paths(rts, request))))

\* dispatch_to_resource up to the call of execute_state_machine; without a
\* matching route the status is 404 and nothing else runs.
Dispatch ==
    /\ pc = "dispatch"
    /\ IF /\ IsSome(chosen_route(routes, context.request))
          /\ IsSome(lookup_resource(routes, Unwrap(chosen_route(routes, context.request))))
       THEN /\ context' = [context EXCEPT !.request =
                  update_paths_for_resource(@, Unwrap(chosen_route(routes, context.request)))]
            /\ resource' = Unwrap(lookup_resource(routes,
                                  Unwrap(chosen_route(routes, context.request))))
            /\ pc' = "running"
       ELSE /\ context' = [context EXCEPT !.response.status = 404]
            /\ pc' = "not_found"
            /\ UNCHANGED resource
    /\ UNCHANGED <<state, loop_count, decisions, calls, utc_now, routes, uri_path, uri_query, tasks, owner>>

\* context_from_http_request: the Context of a request the transport received
Receive ==
    /\ pc = "receive"
    /\ context' = [DefaultContext EXCEPT
                      !.request.request_path = uri_path,
                      !.request.query = IF IsSome(uri_query)
                                        THEN parse_query(Unwrap(uri_query))
                                        ELSE EmptyMap]
    /\ pc' = "dispatch"
    /\ UNCHANGED <<resource, state, loop_count, decisions, calls, utc_now,
                   routes, uri_path, uri_query, tasks, owner>>

\* Dispatcher::dispatch
NextService == Receive \/ Dispatch \/ Step \/ Finish \/ Finalise


\* dispatch_to_resource: the dispatch, the state machine, the finalizer
NextDispatch == Dispatch \/ Step \/ Finish \/ Finalise


---------------------------------------------------------------------------
(* Initial states: a request and a resource, before execute_state_machine *)

Start(req, res) ==
    /\ context = [DefaultContext EXCEPT !.request = req]
    /\ resource = res
    /\ state = D("Start")
    /\ loop_count = 0
    /\ decisions = << >>
    /\ calls = << >>
    /\ utc_now = None
    /\ pc = "running"
    /\ routes = << >>
    /\ uri_path = req.request_path
    /\ uri_query = None
    /\ tasks = << >>
    /\ owner = << >>

\* A header map with the header `name` when opt is Some(values)
Hdr(name, opt) == IF IsSome(opt) THEN (name :> Unwrap(opt)) ELSE EmptyMap

AllMethodsAllowed == <<<<"O","P","T","I","O","N","S">>, <<"G","E","T">>, <<"H","E","A","D">>, <<"P","O","S","T">>, <<"P","U","T">>, <<"D","E","L","E","T","E">>>>

(* The service gates: every gate callback, the method and the content type vary. *)
GateMethods == {<<"G","E","T">>, <<"P","O","S","T">>, <<"p","u","t">>, <<"O","P","T","I","O","N","S">>, <<"T","R","A","C","E">>, <<"B","R","E","W">>}
ContentTypeOptions ==
    {None, Some(<<h(<<"a","p","p","l","i","c","a","t","i","o","n","/","j","s","o","n">>)>>), Some(<<h(<<"A","p","p","l","i","c","a","t","i","o","n","/","X","M","L">>)>>),
     Some(<<h(<<"A","P","P","L","I","C","A","T","I","O","N","/","J","S","O","N">>)>>), Some(<< >>)}
\* The default, and a list of two that does not hold application/json
AcceptableContentTypesOptions ==
    {DefaultResource.acceptable_content_types, <<<<"t","e","x","t","/","x","m","l">>, <<"a","p","p","l","i","c","a","t","i","o","n","/","x","m","l">>>>}
Realm == <<"B","a","s","i","c"," ","r","e","a","l","m","=","\"","x","\"">>

InitGates ==
    \E m \in GateMethods, ct \in ContentTypeOptions, act \in AcceptableContentTypesOptions,
       av \in BOOLEAN, utl \in BOOLEAN, mal \in BOOLEAN, forb \in BOOLEAN,
       uch \in BOOLEAN, vel \in BOOLEAN, auth \in {None, Some(Realm)} :
        Start([DefaultRequest EXCEPT !.method = m, !.headers = Hdr("Content-Type", ct)],
              [DefaultResource EXCEPT
                  !.allowed_methods = <<<<"O","P","T","I","O","N","S">>, <<"G","E","T">>, <<"H","E","A","D">>, <<"P","O","S","T">>, <<"P","U","T">>>>,
                  !.available = av, !.uri_too_long = utl, !.malformed_request = mal,
                  !.forbidden = forb, !.unsupported_content_headers = uch,
                  !.valid_entity_length = vel, !.not_authorized = auth,
                  !.acceptable_content_types = act])

(* Negotiation: the four Accept* headers and the lists the resource provides vary. *)
AcceptOptions ==
    {None, Some(<< >>), Some(<<h(<<"a","p","p","l","i","c","a","t","i","o","n","/","j","s","o","n">>)>>), Some(<<h(<<"t","e","x","t","/","h","t","m","l">>)>>),
     Some(<<h(<<"t","e","x","t","/","*",";","q","=","0",".","5">>), h(<<"*","/","*",";","q","=","0",".","1">>)>>)}
ProducesOptions == {<<TxtApplicationJson>>, <<<<"t","e","x","t","/","h","t","m","l">>, TxtApplicationJson>>}
AcceptLanguageOptions ==
    {None, Some(<< >>), Some(<<h(<<"e","n","-","g","b">>)>>), Some(<<h(<<"d","a",";","q","=","0">>), h(<<"*",";","q","=","0",".","5">>)>>),
     Some(<<h(<<"f","r">>)>>)}
LanguagesOptions == {<< >>, <<<<"e","n">>, <<"d","a">>>>}
AcceptCharsetOptions ==
    {None, Some(<<h(<<"u","t","f","-","8">>)>>), Some(<<h(<<"i","s","o","-","8","8","5","9","-","5">>), h(<<"i","s","o","-","8","8","5","9","-","1",";","q","=","0">>)>>),
     Some(<<h(<<"*">>)>>)}
CharsetsOptions == {<< >>, <<<<"U","T","F","-","8">>, <<"U","S","-","A","S","C","I","I">>>>}
AcceptEncodingOptions ==
    {None, Some(<<h(<<"g","z","i","p">>)>>), Some(<<h(<<"i","d","e","n","t","i","t","y",";","q","=","0">>)>>),
     Some(<<h(<<"*",";","q","=","0">>), h(<<"g","z","i","p",";","q","=","0",".","5">>)>>)}
EncodingsOptions == {<<TxtIdentity>>, <<<<"g","z","i","p">>, TxtIdentity>>, << >>}

InitNegotiation ==
    \E a \in AcceptOptions, p \in ProducesOptions,
       al \in AcceptLanguageOptions, lp \in LanguagesOptions,
       ac \in AcceptCharsetOptions, cp \in CharsetsOptions,
       ae \in AcceptEncodingOptions, ep \in EncodingsOptions :
        Start([DefaultRequest EXCEPT
                  !.headers = Hdr("Accept", a) @@ Hdr("Accept-Language", al)
                              @@ Hdr("Accept-Charset", ac) @@ Hdr("Accept-Encoding", ae)],
              [DefaultResource EXCEPT
                  !.produces = p, !.languages_provided = lp,
                  !.charsets_provided = cp, !.encodings_provided = ep])

(* Conditional requests: the four conditional headers, the resource's ETag and
   modification date, and the method vary; every method is allowed. *)
EtagA == <<"a">>
StarEntry == h(<<"*">>)
StrongA == h(<<"\"","a","\"">>)
WeakA == h(<<"W","/","\"","a","\"">>)
StrongB == h(<<"\"","b","\"">>)
WeakB == h(<<"W","/","\"","b","\"">>)
\* W/ followed by something that is not a quoted token
MalformedWeak == h(<<"W","/","a">>)

IfMatchOptions ==
    {None, Some(<<StarEntry>>), Some(<<StrongA>>), Some(<<WeakA>>), Some(<<StrongB>>),
     Some(<<WeakB, StrongA>>), Some(<<MalformedWeak>>), Some(<<StrongB, StarEntry>>)}
IfNoneMatchOptions ==
    {None, Some(<<StarEntry>>), Some(<<StrongA>>), Some(<<WeakB, WeakA>>), Some(<<StrongB>>),
     Some(<<StrongA, MalformedWeak>>), Some(<<MalformedWeak, StrongA>>)}
EtagOptions == {None, Some(EtagA)}

\* The header text of the instant k
DateText(k) == <<"t", Digits[k + 1]>>
IfUnmodifiedSinceOptions ==
    {None, Some(<< >>), Some(<<h(<<"y","e","s","t","e","r","d","a","y">>)>>)}
        \cup {Some(<<h(DateText(k))>>) : k \in Times}
IfModifiedSinceOptions ==
    {None, Some(<<h(<<"y","e","s","t","e","r","d","a","y">>)>>)}
        \cup {Some(<<h(DateText(k))>>) : k \in Times}
\* The resource was last modified at the instant 2, or does not say
LastModifiedOptions == {None, Some(2)}

CondMethods == {<<"G","E","T">>, <<"H","E","A","D">>, <<"P","O","S","T">>, <<"D","E","L","E","T","E">>}

InitConditional ==
    \E m \in CondMethods, im \in IfMatchOptions, inm \in IfNoneMatchOptions,
       ius \in IfUnmodifiedSinceOptions, ims \in IfModifiedSinceOptions,
       etag \in EtagOptions, lm \in LastModifiedOptions :
        Start([DefaultRequest EXCEPT
                  !.method = m,
                  !.headers = Hdr("If-Match", im) @@ Hdr("If-None-Match", inm)
                              @@ Hdr("If-Unmodified-Since", ius)
                              @@ Hdr("If-Modified-Since", ims)],
              [DefaultResource EXCEPT
                  !.allowed_methods = AllMethodsAllowed,
                  !.generate_etag = etag, !.last_modified = lm])

(* A missing resource with an If-Match header. *)
InitMissing ==
    \E m \in CondMethods \cup {<<"P","U","T">>}, im \in IfMatchOptions, etag \in EtagOptions :
        Start([DefaultRequest EXCEPT !.method = m, !.headers = Hdr("If-Match", im)],
              [DefaultResource EXCEPT
                  !.allowed_methods = AllMethodsAllowed,
                  !.resource_exists = FALSE, !.generate_etag = etag])

(* Writes and moves: the callbacks behind PUT, POST and DELETE vary. *)
WriteMethods == {<<"G","E","T">>, <<"P","O","S","T">>, <<"P","U","T">>, <<"D","E","L","E","T","E">>}
Bytes == <<"b","o","d","y">>
\* What the four writing callbacks do: the defaults, a failure with status
\* 500, a failure with status 412 or 304, success with the context written to
\* (redirect set, a body set), or Ok(false).
WriteOptions ==
    {[delete_resource |-> Pure(Ok(TRUE)), process_post |-> Pure(Ok(FALSE)),
      process_put |-> Pure(Ok(TRUE)),
      create_path |-> Pure([tag |-> "OkRequestPath", val |-> 0])],
     [delete_resource |-> Pure(Err(500)), process_post |-> Pure(Err(500)),
      process_put |-> Pure(Err(500)), create_path |-> Pure(Err(500))],
     [delete_resource |-> Pure(Err(412)), process_post |-> Pure(Err(304)),
      process_put |-> Pure(Err(412)), create_path |-> Pure(Err(412))],
     [delete_resource |-> [ret |-> Ok(TRUE), redirect |-> FALSE, body |-> Some(Bytes), headers |-> EmptyMap],
      process_post |-> [ret |-> Ok(TRUE), redirect |-> TRUE, body |-> None, headers |-> EmptyMap],
      process_put |-> [ret |-> Ok(TRUE), redirect |-> FALSE, body |-> Some(Bytes), headers |-> EmptyMap],
      create_path |-> [ret |-> Ok(<<"/","n","e","w","/","p","a","t","h">>), redirect |-> TRUE, body |-> None, headers |-> EmptyMap]],
     [delete_resource |-> Pure(Ok(FALSE)), process_post |-> Pure(Ok(TRUE)),
      process_put |-> Pure(Ok(FALSE)), create_path |-> Pure(Ok(<<"/","n","e","w","/","p","a","t","h">>))]}
Location == <<"h","t","t","p",":","/","/","g","o",".","a","w","a","y">>

InitWrites ==
    \E m \in WriteMethods, w \in WriteOptions,
       ex \in BOOLEAN, prev \in BOOLEAN, amp \in BOOLEAN, pic \in BOOLEAN,
       conf \in BOOLEAN, mc \in BOOLEAN,
       mp \in {None, Some(Location)}, mt \in {None, Some(Location)} :
        Start([DefaultRequest EXCEPT !.method = m, !.base_path = <<"/","b","a","s","e","/","p","a","t","h">>],
              [DefaultResource EXCEPT
                  !.allowed_methods = AllMethodsAllowed,
                  !.resource_exists = ex, !.previously_existed = prev,
                  !.allow_missing_post = amp, !.post_is_create = pic,
                  !.is_conflict = conf, !.multiple_choices = mc,
                  !.moved_permanently = mp, !.moved_temporarily = mt,
                  !.delete_resource = w.delete_resource, !.process_post = w.process_post,
                  !.process_put = w.process_put, !.create_path = w.create_path])

(* The matching functions one at a time: one Accept* header and the list the
   resource provides for it vary, every list of at most two distinct entries. *)
SeqsUpTo2(S) ==
    {<< >>} \cup {<<x>> : x \in S} \cup {pair \in S \X S : pair[1] # pair[2]}

\* A header that is absent, or present with the given entries
HeaderOptions(S) == {None} \cup {Some(vals) : vals \in SeqsUpTo2(S)}

MediaAccepted == {h(<<"t","e","x","t","/","h","t","m","l">>), h(<<"a","p","p","l","i","c","a","t","i","o","n","/","j","s","o","n">>), h(<<"t","e","x","t","/","*">>),
                  h(<<"*","/","*",";","q","=","0",".","1">>), h(<<"t","e","x","t","/","p","l","a","i","n",";","q","=","0",".","5">>)}
\* "text" is a list entry written without a subtype
MediaProduced == {<<"t","e","x","t","/","h","t","m","l">>, <<"a","p","p","l","i","c","a","t","i","o","n","/","j","s","o","n">>, <<"t","e","x","t","/","p","l","a","i","n">>, <<"t","e","x","t">>}

InitMediaTypes ==
    \E a \in HeaderOptions(MediaAccepted), p \in SeqsUpTo2(MediaProduced) :
        Start([DefaultRequest EXCEPT !.headers = Hdr("Accept", a)],
              [DefaultResource EXCEPT !.produces = p])


LanguagesAccepted == {h(<<"e","n","-","g","b">>), h(<<"e","n",";","q","=","0",".","5">>), h(<<"d","a",";","q","=","0">>), h(<<"*",";","q","=","0",".","1">>),
                      h(<<"e">>), h(<<"f","r",";","q","=","0",".","8">>)}
LanguagesProvided == {<<"e","n">>, <<"d","a">>, <<"e","n","-","g","b">>, <<"e">>, <<"f","r","-","c","a">>}

InitLanguages ==
    \E al \in HeaderOptions(LanguagesAccepted), lp \in SeqsUpTo2(LanguagesProvided) :
        Start([DefaultRequest EXCEPT !.headers = Hdr("Accept-Language", al)],
              [DefaultResource EXCEPT !.languages_provided = lp])


CharsetsAccepted == {h(<<"u","t","f","-","8">>), h(<<"i","s","o","-","8","8","5","9","-","5",";","q","=","0",".","5">>), h(<<"i","s","o","-","8","8","5","9","-","1",";","q","=","0">>),
                     h(<<"*",";","q","=","0",".","1">>), h(<<"*",";","q","=","0">>), h(<<"U","S","-","A","S","C","I","I",";","q","=","0",".","5">>)}
CharsetsProvided == {<<"U","T","F","-","8">>, <<"U","S","-","A","S","C","I","I">>, <<"I","S","O","-","8","8","5","9","-","1">>, <<"S","h","i","f","t","-","J","I","S">>}

InitCharsets ==
    \E ac \in HeaderOptions(CharsetsAccepted), cp \in SeqsUpTo2(CharsetsProvided) :
        Start([DefaultRequest EXCEPT !.headers = Hdr("Accept-Charset", ac)],
              [DefaultResource EXCEPT !.charsets_provided = cp])


EncodingsAccepted == {h(<<"g","z","i","p">>), h(<<"i","d","e","n","t","i","t","y",";","q","=","0">>), h(<<"i","d","e","n","t","i","t","y",";","q","=","0",".","5">>),
                      h(<<"*",";","q","=","0">>), h(<<"*",";","q","=","0",".","1">>), h(<<"g","z","i","p",";","q","=","0",".","5">>)}
EncodingsProvided == {<<"i","d","e","n","t","i","t","y">>, <<"G","Z","I","P">>, <<"b","r">>}

InitEncodings ==
    \E ae \in HeaderOptions(EncodingsAccepted), ep \in SeqsUpTo2(EncodingsProvided) :
        Start([DefaultRequest EXCEPT !.headers = Hdr("Accept-Encoding", ae)],
              [DefaultResource EXCEPT !.encodings_provided = ep])


(* POST at N11: the paths, and what create_path and process_post return and
   whether they set context.redirect, vary; the resource exists or allows a
   POST to a missing resource. *)
BasePaths == {<<"/">>, <<"/","b","a","s","e","/","p","a","t","h">>, <<"b","a","s","e","/","/","p","a","t","h","/">>}
CreatePathReturns ==
    <<[tag |-> "OkRequestPath", val |-> 0], Ok(<<"/","n","e","w","/","p","a","t","h">>), Ok(<<"n","e","w","/","/","p","a","t","h","/">>),
      Ok(<< >>), Err(500)>>
ProcessPostReturns == <<Ok(FALSE), Err(500)>>

InitPosts ==
    \E base \in BasePaths, c \in DOMAIN CreatePathReturns, p \in DOMAIN ProcessPostReturns,
       red \in BOOLEAN, pic \in BOOLEAN, ex \in BOOLEAN, amp \in BOOLEAN,
       m \in {<<"P","O","S","T">>, <<"P","U","T">>} :
        Start([DefaultRequest EXCEPT !.method = m, !.base_path = base],
              [DefaultResource EXCEPT
                  !.allowed_methods = AllMethodsAllowed,
                  !.resource_exists = ex, !.allow_missing_post = amp,
                  !.post_is_create = pic,
                  !.create_path = [ret |-> CreatePathReturns[c], redirect |-> red,
                                   body |-> None, headers |-> EmptyMap],
                  !.process_post = [ret |-> ProcessPostReturns[p], redirect |-> red,
                                    body |-> None, headers |-> EmptyMap]])


(* PUT and DELETE: what process_put and delete_resource return and the body
   they leave (none, an empty one, a non-empty one) vary, on existing, missing
   and moved resources. *)
WriteReturns == <<Ok(TRUE), Ok(FALSE), Err(500)>>
BodyOptions == {None, Some(<< >>), Some(Bytes)}

InitBodies ==
    \E m \in {<<"P","U","T">>, <<"D","E","L","E","T","E">>}, r \in DOMAIN WriteReturns, b \in BodyOptions,
       ex \in BOOLEAN, conf \in BOOLEAN, mc \in BOOLEAN,
       mp \in {None, Some(Location)} :
        Start([DefaultRequest EXCEPT !.method = m],
              [DefaultResource EXCEPT
                  !.allowed_methods = AllMethodsAllowed,
                  !.resource_exists = ex, !.is_conflict = conf,
                  !.multiple_choices = mc, !.moved_permanently = mp,
                  !.process_put = [ret |-> WriteReturns[r], redirect |-> FALSE, body |-> b, headers |-> EmptyMap],
                  !.delete_resource = [ret |-> WriteReturns[r], redirect |-> FALSE,
                                       body |-> b, headers |-> EmptyMap]])


(* Methods: the request method and the lists of known and allowed methods
   vary in content and in letter case; so do the two gates before B10. *)
RequestMethods == {<<"G","E","T">>, <<"g","e","t">>, <<"T","R","A","C","E">>, <<"t","r","a","c","e">>, <<"B","R","E","W">>, <<"P","u","t">>}
AllowedMethodsOptions ==
    {DefaultResource.allowed_methods, <<<<"g","e","t">>, <<"P","U","T">>>>, << >>,
     <<<<"T","R","A","C","E">>, <<"G","E","T">>, <<"T","R","A","C","E">>>>}
KnownMethodsOptions == {DefaultResource.known_methods, <<<<"g","e","t">>, <<"t","r","a","c","e">>>>}

InitMethods ==
    \E m \in RequestMethods, am \in AllowedMethodsOptions, km \in KnownMethodsOptions,
       av \in BOOLEAN, utl \in BOOLEAN :
        Start([DefaultRequest EXCEPT !.method = m],
              [DefaultResource EXCEPT
                  !.allowed_methods = am, !.known_methods = km,
                  !.available = av, !.uri_too_long = utl])


(* OPTIONS: the options callback, the method's letter case and the last
   service gates vary; the request carries an Accept header the resource may
   not satisfy and the resource may be missing. *)
InitOptions ==
    \E m \in {<<"O","P","T","I","O","N","S">>, <<"o","p","t","i","o","n","s">>, <<"G","E","T">>}, o \in {"cors", "none", "custom"},
       am \in {DefaultResource.allowed_methods, <<<<"O","P","T","I","O","N","S">>>>},
       a \in {None, Some(<<h(<<"t","e","x","t","/","h","t","m","l">>)>>)},
       forb \in BOOLEAN, vel \in BOOLEAN, ex \in BOOLEAN :
        Start([DefaultRequest EXCEPT !.method = m, !.headers = Hdr("Accept", a)],
              [DefaultResource EXCEPT
                  !.allowed_methods = am, !.options = o, !.forbidden = forb,
                  !.valid_entity_length = vel, !.resource_exists = ex])


(* Content-Type: the media type and the charset negotiated, the status the
   run ends with, and a Content-Type that process_post sets under one letter
   case or another, vary. *)
CallbackContentTypes ==
    {EmptyMap,
     "content-type" :> <<h(<<"t","e","x","t","/","p","l","a","i","n">>)>>,
     "Content-Type" :> <<h(<<"t","e","x","t","/","x","m","l",";","c","h","a","r","s","e","t","=","U","T","F","-","1","6">>), h(<<"t","e","x","t","/","c","s","v">>)>>}

InitContentTypes ==
    \E m \in {<<"G","E","T">>, <<"P","O","S","T">>},
       am \in {DefaultResource.allowed_methods, AllMethodsAllowed},
       a \in {None, Some(<<h(<<"t","e","x","t","/","h","t","m","l">>)>>), Some(<<h(<<"*","/","*",";","q","=","0",".","1">>)>>)},
       p \in {<<TxtApplicationJson>>, <<<<"t","e","x","t","/","h","t","m","l">>, TxtApplicationJson>>},
       ac \in {None, Some(<<h(<<"u","t","f","-","8">>)>>), Some(<<h(<<"*">>)>>)},
       cp \in {<< >>, <<<<"U","T","F","-","8">>, <<"U","S","-","A","S","C","I","I">>>>},
       ct \in CallbackContentTypes :
        Start([DefaultRequest EXCEPT
                  !.method = m,
                  !.headers = Hdr("Accept", a) @@ Hdr("Accept-Charset", ac)],
              [DefaultResource EXCEPT
                  !.allowed_methods = am, !.produces = p, !.charsets_provided = cp,
                  !.process_post = [ret |-> Ok(FALSE), redirect |-> FALSE,
                                    body |-> None, headers |-> ct]])


(* Vary: the four lists of the resource have one entry or more, the
   variances vary, and process_post may set a Vary header of its own. *)
VariancesOptions ==
    {<< >>, <<<<"H","E","A","D","E","R","-","A">>>>, <<<<"H","E","A","D","E","R","-","A">>, <<"H","E","A","D","E","R","-","B">>>>, <<<<"A","c","c","e","p","t">>, <<"A","c","c","e","p","t">>>>}

InitVary ==
    \E m \in {<<"G","E","T">>, <<"P","O","S","T">>},
       lp \in {<< >>, <<<<"e","n">>>>, <<<<"e","n">>, <<"d","a">>>>},
       cp \in {<< >>, <<<<"U","T","F","-","8">>, <<"U","S","-","A","S","C","I","I">>>>},
       ep \in {<<TxtIdentity>>, <<<<"g","z","i","p">>, TxtIdentity>>},
       p \in {<<TxtApplicationJson>>, <<<<"t","e","x","t","/","h","t","m","l">>, TxtApplicationJson>>},
       v \in VariancesOptions,
       cv \in {EmptyMap, "Vary" :> <<h(<<"O","r","i","g","i","n">>)>>} :
        Start([DefaultRequest EXCEPT !.method = m],
              [DefaultResource EXCEPT
                  !.allowed_methods = AllMethodsAllowed,
                  !.languages_provided = lp, !.charsets_provided = cp,
                  !.encodings_provided = ep, !.produces = p, !.variances = v,
                  !.process_post = [ret |-> Ok(FALSE), redirect |-> FALSE,
                                    body |-> None, headers |-> cv]])


(* Rendering: the method, what render_response returns, the body a callback
   has left, and the status the run ends with vary. *)
RenderOptions == {None, Some(<< >>), Some(<<"h", "i">>), Some(<<"h", "é">>)}
LeftBodies == {None, Some(<< >>), Some(<<111, 107>>)}

InitRender ==
    \E m \in {<<"G","E","T">>, <<"g","e","t">>, <<"H","E","A","D">>, <<"D","E","L","E","T","E">>},
       rr \in RenderOptions, b \in LeftBodies,
       ex \in BOOLEAN, mc \in BOOLEAN,
       a \in {None, Some(<<h(<<"t","e","x","t","/","h","t","m","l">>)>>)} :
        Start([DefaultRequest EXCEPT !.method = m, !.headers = Hdr("Accept", a)],
              [DefaultResource EXCEPT
                  !.allowed_methods = AllMethodsAllowed,
                  !.resource_exists = ex, !.resource_exists_body = b,
                  !.multiple_choices = mc, !.render_response = rr])


(* Dispatch: the routes of the dispatcher and the path of the request.  A
   BTreeMap keeps its keys in byte order; the resource of a route is told
   from the others by the text its render_response returns. *)
ByteOf(c) ==
    CASE c = "/" -> 47
      [] c = "a" -> 97
      [] c = "b" -> 98
      [] c = "c" -> 99

\* Ord for str: the byte-wise lexicographic order
RECURSIVE StrLess(_, _)
StrLess(s, t) ==
    IF t = << >> THEN FALSE
    ELSE IF s = << >> THEN TRUE
    ELSE IF Head(s) = Head(t) THEN StrLess(Tail(s), Tail(t))
    ELSE ByteOf(Head(s)) < ByteOf(Head(t))

\* The keys of a BTreeMap, in its order
RECURSIVE InKeyOrder(_)
InKeyOrder(keys) ==
    IF keys = {} THEN << >>
    ELSE LET least == CHOOSE k \in keys : \A l \in keys \ {k} : StrLess(k, l)
         IN <<least>> \o InKeyOrder(keys \ {least})

MaxRoutes == 3
RouteKeys == {<<"/">>, <<"/","a">>, <<"/","a","/">>, <<"/","a","/","/","/">>, <<"/","a","/","b">>, <<"/","a","b">>, <<"/","b">>}
RouteBodies == <<Some(<<"h", "i">>), Some(<<"h", "é">>), Some(<< >>), None>>
UriPaths == {<<"/">>, <<"/","a">>, <<"/","a","/">>, <<"/","a","/","b">>, <<"/","a","/","/","b">>, <<"/","/","a","/","b">>, <<"/","a","b">>,
             <<"/","a","/","b","/","c">>, <<"/","c">>}

RoutesOf(keys) ==
    [i \in 1..Cardinality(keys) |->
        [path |-> InKeyOrder(keys)[i],
         resource |-> [DefaultResource EXCEPT
                          !.render_response = RouteBodies[((i - 1) % 4) + 1]]]]

InitDispatch ==
    \E keys \in {ks \in SUBSET RouteKeys : Cardinality(ks) <= MaxRoutes},
       p \in UriPaths :
        /\ context = [DefaultContext EXCEPT !.request.request_path = p]
        /\ resource = DefaultResource
        /\ state = D("Start")
        /\ loop_count = 0
        /\ decisions = << >>
        /\ calls = << >>
        /\ utc_now = None
        /\ pc = "dispatch"
        /\ routes = RoutesOf(keys)
        /\ uri_path = p
        /\ uri_query = None
        /\ tasks = << >>
        /\ owner = << >>


(* Query strings: every string up to MaxQueryLen over an alphabet with the
   separators, the escape character, two hexadecimal digits and two other
   characters, and the query strings of the repository's tests; the request
   goes to a dispatcher with the route '/'. *)
MaxQueryLen == 3
QueryChars == {"k", "v", "=", "&", "%", "+", "2", "0"}
QueryStrings == UNION {[1..n -> QueryChars] : n \in 0..MaxQueryLen}
QueryExamples ==
    {<<"a","=","b","&","c","=","d">>, <<"a","=","&","c","=","d">>, <<"a","=","b","&","c","=","d","=","e","=","f">>, <<"a","=","a","%","2","0","b","%","2","0","c">>,
     <<"a","=","a","%","2","0","b","%","2","0","c","&","k","=","&","c","=","d","=","e","=","f">>, <<"k","=","1","&","v","=","2","&","k","=","3">>, <<"%","6","B","=","%","4","1","&","k","=","%","3","d","%","3","D">>,
     <<"k","=","%","2","&","v","=","%">>, <<"k","+","v","=","%","2","5","+","%","k","v">>, <<"&","&","k","&","&">>}

InitQuery ==
    \E q \in {None} \cup {Some(t) : t \in QueryStrings \cup QueryExamples} :
        /\ context = DefaultContext
        /\ resource = DefaultResource
        /\ state = D("Start")
        /\ loop_count = 0
        /\ decisions = << >>
        /\ calls = << >>
        /\ utc_now = None
        /\ pc = "receive"
        /\ routes = RoutesOf({<<"/">>})
        /\ uri_path = <<"/">>
        /\ uri_query = q
        /\ tasks = << >>
        /\ owner = << >>


(* Concurrent requests: NumRequests requests, each a GET or a POST, on one
   Resource whose post_is_create answers either way.  The requests are
   interchangeable, so their methods are taken in one order only. *)
NumRequests == 2
SharedMethods == <<<<"G","E","T">>, <<"P","O","S","T">>>>

SharedResource(pic) ==
    [DefaultResource EXCEPT !.allowed_methods = AllMethodsAllowed,
                            !.post_is_create = pic]

InitShared ==
    \E pic \in BOOLEAN, m \in [1..NumRequests -> DOMAIN SharedMethods] :
        /\ \A t \in 1..(NumRequests - 1) : m[t] <= m[t + 1]
        /\ context = DefaultContext
        /\ resource = SharedResource(pic)
        /\ state = D("Start")
        /\ loop_count = 0
        /\ decisions = << >>
        /\ calls = << >>
        /\ utc_now = None
        /\ pc = "serving"
        /\ routes = << >>
        /\ uri_path = <<"/">>
        /\ uri_query = None
        /\ tasks = [t \in 1..NumRequests |->
                       [method |-> SharedMethods[m[t]],
                        ops |-> machine_ops(D("Start"),
                                    [DefaultContext EXCEPT
                                        !.request.method = SharedMethods[m[t]]],
                                    SharedResource(pic)),
                        pos |-> 1]]
        /\ owner = [c \in Mutexes |-> 0]


---------------------------------------------------------------------------
(* Specifications *)

Init ==
    \/ InitGates \/ InitNegotiation \/ InitConditional \/ InitMissing \/ InitWrites
    \/ InitMediaTypes \/ InitLanguages \/ InitCharsets \/ InitEncodings
    \/ InitPosts \/ InitBodies \/ InitMethods \/ InitOptions
    \/ InitContentTypes \/ InitVary \/ InitRender

\* Every family of requests
Spec == Init /\ [][Next]_vars

\* The service gates
SpecGates == InitGates /\ [][Next]_vars

\* Content negotiation
SpecNegotiation == InitNegotiation /\ [][Next]_vars

\* Conditional requests, on an existing and on a missing resource, and the
\* writes that follow them
SpecConditional == (InitConditional \/ InitMissing \/ InitWrites) /\ [][Next]_vars

\* matching_content_type on its own
SpecMediaTypes == InitMediaTypes /\ [][Next]_vars


\* matching_language on its own
SpecLanguages == InitLanguages /\ [][Next]_vars


\* matching_charset on its own
SpecCharsets == InitCharsets /\ [][Next]_vars


\* matching_encoding on its own
SpecEncodings == InitEncodings /\ [][Next]_vars


\* PUT, POST and DELETE with every behaviour of the writing callbacks
SpecWrites == InitWrites /\ [][Next]_vars


\* POST at N11 on its own
SpecPosts == InitPosts /\ [][Next]_vars


\* PUT and DELETE with every body the callback may leave
SpecBodies == InitBodies /\ [][Next]_vars


\* The method gates with methods in every letter case
SpecMethods == InitMethods /\ [][Next]_vars


\* OPTIONS requests
SpecOptions == InitOptions /\ [][Next]_vars


\* The Content-Type of the response
SpecContentTypes == InitContentTypes /\ [][Next]_vars


\* The Vary header of the response
SpecVary == InitVary /\ [][Next]_vars


\* The body of the response
SpecRender == InitRender /\ [][Next]_vars


\* Requests that come through the dispatcher
SpecDispatch == InitDispatch /\ [][NextDispatch]_vars


\* Requests with a query string, from the transport to the response
SpecQuery == InitQuery /\ [][NextService]_vars


\* Concurrent requests on a shared Resource
SpecShared == InitShared /\ [][NextShared]_vars

\* The same, with every request polled again whenever it can go on: the
\* executor runs a task that is ready, and the unlock of a mutex wakes a
\* task that waits for it
SpecSharedFair == SpecShared /\ \A t \in 1..NumRequests : WF_vars(Serve(t))


---------------------------------------------------------------------------
(* Reading a run: the decisions taken, the callbacks invoked, the outcome *)

\* The decision node was evaluated in this run
Evaluated(n) == \E i \in 1..Len(decisions) : decisions[i][1].node = n

\* The recorded evaluation of a node that was evaluated
EntryOf(n) == decisions[CHOOSE i \in 1..Len(decisions) : decisions[i][1].node = n]

\* Its result was true / false, and the node the run went to next
WasTrue(n) == Evaluated(n) /\ EntryOf(n)[2]
WasFalse(n) == Evaluated(n) /\ ~EntryOf(n)[2]
NextOf(n) == EntryOf(n)[3]

\* The position of a node in the run, 0 when it was not evaluated
PositionOf(n) == FirstIndex(Len(decisions), LAMBDA i : decisions[i][1].node = n)

\* The callback was invoked in this run
Invoked(callback) == \E i \in 1..Len(calls) : calls[i] = callback

\* execute_state_machine has returned, and the status it wrote
Done == pc = "done"
Status == context.response.status

\* A decision panicked: execute_state_machine never returned
Aborted == pc = "panic_unwrap"

---------------------------------------------------------------------------
(* C1: termination *)

\* The non-terminal nodes one transition after a decision
Successors(decision) ==
    LET transition == transition_get(decision)
    IN IF IsSome(transition)
       THEN {d \in {Unwrap(transition).t, Unwrap(transition).f} : ~is_terminal(d)}
       ELSE {}

\* The non-terminal nodes at the end of a path of k transitions from a node in from
RECURSIVE PathEnds(_, _)
PathEnds(from, k) ==
    IF k = 0 \/ from = {} THEN from
    ELSE PathEnds(UNION {Successors(d) : d \in from}, k - 1)

\* No path of the graph is as long as the number of its nodes: the graph of
\* TRANSITION_MAP has no cycle among its non-terminal nodes
NoCycle == PathEnds({D(n) : n \in TransitionKeys}, Cardinality(TransitionKeys)) = {}

\* No path from Start visits 100 non-terminal nodes
NoLongPath == PathEnds({D("Start")}, MAX_STATE_MACHINE_TRANSITIONS - 1) = {}

---------------------------------------------------------------------------
(* C2: no decision panics *)

\* C2: whatever the method and the header values, no decision node panics:
\* execute_state_machine is never cut short before it writes the status.
C2_NeverAborts == ~Aborted


---------------------------------------------------------------------------
(* C3: the service gates *)

\* The gates in the order the claim gives them; the result of each gate that
\* lets the request pass; the status of each gate that stops it (the last
\* gate, OPTIONS, stops nothing)
GateOrder ==
    <<"B13Available", "B12KnownMethod", "B11UriTooLong", "B10MethodAllowed",
      "B9MalformedRequest", "B8Authorized", "B7Forbidden",
      "B6UnsupportedContentHeader", "B5UnknownContentType",
      "B4RequestEntityTooLarge", "B3Options">>
GatePasses == <<TRUE, TRUE, FALSE, TRUE, FALSE, TRUE, FALSE, FALSE, FALSE, FALSE>>
GateStatus == <<503, 501, 414, 405, 400, 401, 403, 501, 415, 413>>

\* Whether the request fails gate i, read off the request and the resource
GateFails(i) ==
    CASE i = 1 -> ~resource.available
      [] i = 2 -> ~\E k \in 1..Len(resource.known_methods) :
                      TextUpper(resource.known_methods[k]) = TextUpper(context.request.method)
      [] i = 3 -> resource.uri_too_long
      [] i = 4 -> ~\E k \in 1..Len(resource.allowed_methods) :
                      TextUpper(resource.allowed_methods[k]) = TextUpper(context.request.method)
      [] i = 5 -> resource.malformed_request
      [] i = 6 -> IsSome(resource.not_authorized)
      [] i = 7 -> resource.forbidden
      [] i = 8 -> resource.unsupported_content_headers
      [] i = 9 -> /\ TextUpper(context.request.method) \in {<<"P","U","T">>, <<"P","O","S","T">>}
                  /\ ~\E k \in 1..Len(resource.acceptable_content_types) :
                         TextUpper(resource.acceptable_content_types[k])
                             = TextUpper(content_type(context.request))
      [] i = 10 -> /\ TextUpper(context.request.method) \in {<<"P","U","T">>, <<"P","O","S","T">>}
                   /\ ~resource.valid_entity_length

\* The first gate the request fails, 0 when it passes them all
FirstFailingGate == FirstIndex(10, GateFails)

\* The callbacks that belong to gate i
GateCallbacks(i) ==
    CASE i = 1 -> <<"available">>
      [] i = 3 -> <<"uri_too_long">>
      [] i = 5 -> <<"malformed_request">>
      [] i = 6 -> <<"not_authorized">>
      [] i = 7 -> <<"forbidden">>
      [] i = 8 -> <<"unsupported_content_headers">>
      [] i = 10 -> IF TextUpper(context.request.method) \in {<<"P","U","T">>, <<"P","O","S","T">>}
                   THEN <<"valid_entity_length">> ELSE << >>
      [] OTHER -> << >>

\* The callbacks of the gates 1..k, in order
RECURSIVE CallbacksUpTo(_)
CallbacksUpTo(k) == IF k = 0 THEN << >> ELSE CallbacksUpTo(k - 1) \o GateCallbacks(k)

\* The number of gates evaluated so far
GatesEvaluated == IF Len(decisions) < 11 THEN Len(decisions) ELSE 11

\* C3: the gates are evaluated in the fixed order; a gate that passes hands
\* over to the next gate; the first gate that fails ends the run with its
\* status (503, 501, 414, 405, 400, 401, 403, 501, 415, 413), it is the first
\* gate the request fails, nothing is evaluated after it and only the
\* callbacks of the gates up to it have been invoked by the machine (the
\* finalizer invokes its own afterwards); when not_authorized
\* yields a realm and is asked, the run ends 401 with WWW-Authenticate set to
\* that realm.
C3_Gates ==
    /\ \A i \in 1..GatesEvaluated : decisions[i][1] = D(GateOrder[i])
    /\ \A i \in 1..GatesEvaluated :
        i <= 10 =>
            IF decisions[i][2] = GatePasses[i]
            THEN /\ decisions[i][3] = D(GateOrder[i + 1])
                 /\ FirstFailingGate \notin 1..i
            ELSE /\ decisions[i][3] = End(GateStatus[i])
                 /\ Len(decisions) = i
                 /\ FirstFailingGate = i
                 /\ state = End(GateStatus[i])
                 /\ pc # "finalised" => calls = CallbacksUpTo(i)
                 /\ Done => Status = GateStatus[i]
    /\ (Len(decisions) <= 10 /\ pc # "finalised") =>
           calls = CallbacksUpTo(Len(decisions))
    /\ (Done /\ FirstFailingGate # 0) =>
           /\ Status = GateStatus[FirstFailingGate]
           /\ Len(decisions) = FirstFailingGate
    /\ (Invoked("not_authorized") /\ IsSome(resource.not_authorized)) =>
           /\ state = End(401)
           /\ "WWW-Authenticate" \in DOMAIN context.response.headers
           /\ Len(context.response.headers["WWW-Authenticate"]) = 1
           /\ context.response.headers["WWW-Authenticate"][1].value
                  = Unwrap(resource.not_authorized)
           /\ Done => Status = 401

\* C3 witness: a request that passes five gates and is stopped by
\* not_authorized yielding a realm, the run over
C3_Witness ==
    /\ Done
    /\ FirstFailingGate = 6
    /\ Status = 401
    /\ WasFalse("B8Authorized")
    /\ ~Invoked("forbidden")


---------------------------------------------------------------------------
(* Reading the conditional headers off the request, and the resource's
   answers off the resource *)

\* The entries of a header of the request
Entries(header) == find_header(context.request, header)

\* The header has the entry *
HasStar(header) == \E i \in 1..Len(Entries(header)) : Entries(header)[i].value = TxtStar

\* The entry is the strong tag "E" (its value is held unquoted), or the weak
\* tag W/"E"
IsStrongTag(entry, E) == ~StartsWith(entry.value, <<"W", "/">>) /\ entry.value = E
IsWeakTag(entry, E) == entry.value = <<"W", "/", DQ>> \o E \o <<DQ>>

\* Some entry of the header is the resource's ETag, strong or weak
ETagMatches(header) ==
    /\ IsSome(resource.generate_etag)
    /\ \E i \in 1..Len(Entries(header)) :
        \/ IsStrongTag(Entries(header)[i], Unwrap(resource.generate_etag))
        \/ IsWeakTag(Entries(header)[i], Unwrap(resource.generate_etag))

\* The first value of a date header parses, and the date it gives
DateParses(header) ==
    /\ Entries(header) # << >>
    /\ parse_from_rfc2822(Entries(header)[1].value).tag = "Ok"
DateOf(header) == parse_from_rfc2822(Entries(header)[1].value).val

\* last_modified yields a date strictly later than date
ModifiedAfter(date) ==
    IsSome(resource.last_modified) /\ Unwrap(resource.last_modified) > date

MethodIsGetOrHead == TextUpper(context.request.method) \in {<<"G","E","T">>, <<"H","E","A","D">>}

WriteCallbacks ==
    {"delete_resource", "post_is_create", "create_path", "process_post",
     "is_conflict", "process_put"}
NoWriteInvoked == \A i \in 1..Len(calls) : calls[i] \notin WriteCallbacks

\* The node the run went to when it left the If-Match checks (G8, G9, G11),
\* the If-Unmodified-Since checks (H10, H11, H12), the If-None-Match checks
\* (I12, I13, K13, J18) and the If-Modified-Since checks (L13, L14, L15, L17);
\* none while the run has not left them
IfMatchExit ==
    IF WasFalse("G8IfMatchExists") THEN Some(NextOf("G8IfMatchExists"))
    ELSE IF WasTrue("G9IfMatchStarExists") THEN Some(NextOf("G9IfMatchStarExists"))
    ELSE IF Evaluated("G11EtagInIfMatch") THEN Some(NextOf("G11EtagInIfMatch"))
    ELSE None
IfUnmodifiedSinceExit ==
    IF WasFalse("H10IfUnmodifiedSinceExists") THEN Some(NextOf("H10IfUnmodifiedSinceExists"))
    ELSE IF WasFalse("H11IfUnmodifiedSinceValid") THEN Some(NextOf("H11IfUnmodifiedSinceValid"))
    ELSE IF Evaluated("H12LastModifiedGreaterThanUMS")
    THEN Some(NextOf("H12LastModifiedGreaterThanUMS"))
    ELSE None
IfNoneMatchExit ==
    IF WasFalse("I12IfNoneMatchExists") THEN Some(NextOf("I12IfNoneMatchExists"))
    ELSE IF Evaluated("J18GetHead") THEN Some(NextOf("J18GetHead"))
    ELSE IF WasFalse("K13ETagInIfNoneMatch") THEN Some(NextOf("K13ETagInIfNoneMatch"))
    ELSE None
IfModifiedSinceExit ==
    IF WasFalse("L13IfModifiedSinceExists") THEN Some(NextOf("L13IfModifiedSinceExists"))
    ELSE IF WasFalse("L14IfModifiedSinceValid") THEN Some(NextOf("L14IfModifiedSinceValid"))
    ELSE IF WasTrue("L15IfModifiedSinceGreaterThanNow")
    THEN Some(NextOf("L15IfModifiedSinceGreaterThanNow"))
    ELSE IF Evaluated("L17IfLastModifiedGreaterThanMS")
    THEN Some(NextOf("L17IfLastModifiedGreaterThanMS"))
    ELSE None

\* The run ended at this point with the status: End(status) is the state,
\* the decision at hand was the last one, and the status is written on return
EndsWith(status) ==
    /\ state = End(status)
    /\ decisions[Len(decisions)][3] = End(status)
    /\ Done => Status = status


---------------------------------------------------------------------------
(* C4: the order of the conditional checks *)

\* Once the run of an existing resource reaches the DELETE check it has gone
\* through the four groups of conditional checks, in the order If-Match,
\* If-Unmodified-Since, If-None-Match, If-Modified-Since; the checks of a
\* group come only after the group before it was left; no write callback is
\* invoked before the DELETE check.
ConditionalOrder ==
    /\ Evaluated("H10IfUnmodifiedSinceExists") =>
           /\ IsSome(IfMatchExit)
           /\ PositionOf("G8IfMatchExists") < PositionOf("H10IfUnmodifiedSinceExists")
    /\ Evaluated("I12IfNoneMatchExists") =>
           /\ IsSome(IfUnmodifiedSinceExit)
           /\ PositionOf("H10IfUnmodifiedSinceExists") < PositionOf("I12IfNoneMatchExists")
    /\ Evaluated("L13IfModifiedSinceExists") =>
           /\ IsSome(IfNoneMatchExit)
           /\ PositionOf("I12IfNoneMatchExists") < PositionOf("L13IfModifiedSinceExists")
    /\ Evaluated("M16Delete") =>
           /\ IsSome(IfModifiedSinceExit)
           /\ PositionOf("L13IfModifiedSinceExists") < PositionOf("M16Delete")
    /\ (WasTrue("G7ResourceExists") /\ ~NoWriteInvoked) => Evaluated("M16Delete")

\* A failing If-Match or If-Unmodified-Since ends the run 412 whatever
\* If-None-Match and If-Modified-Since hold, and they are not looked at; a
\* matching If-None-Match ends the run 304 or 412 and If-Modified-Since is not
\* looked at.
ConditionalPrecedence ==
    /\ WasFalse("G11EtagInIfMatch") =>
           /\ EndsWith(412)
           /\ ~Evaluated("H10IfUnmodifiedSinceExists")
           /\ ~Evaluated("I12IfNoneMatchExists")
    /\ WasTrue("H12LastModifiedGreaterThanUMS") =>
           /\ EndsWith(412)
           /\ ~Evaluated("I12IfNoneMatchExists")
    /\ (WasTrue("I13IfNoneMatchStarExists") \/ WasTrue("K13ETagInIfNoneMatch")) =>
           /\ ~Evaluated("L13IfModifiedSinceExists")
           /\ Evaluated("J18GetHead") => (EndsWith(304) \/ EndsWith(412))
    /\ \A n \in {"G8IfMatchExists", "G9IfMatchStarExists", "G11EtagInIfMatch",
                 "H10IfUnmodifiedSinceExists", "H11IfUnmodifiedSinceValid",
                 "H12LastModifiedGreaterThanUMS", "I12IfNoneMatchExists",
                 "I13IfNoneMatchStarExists", "K13ETagInIfNoneMatch", "J18GetHead",
                 "L13IfModifiedSinceExists", "L14IfModifiedSinceValid",
                 "L15IfModifiedSinceGreaterThanNow", "L17IfLastModifiedGreaterThanMS"} :
           state = D(n) => NoWriteInvoked

\* The run of an existing resource has returned with 304 or 412
EndedNotModifiedOrFailed ==
    Done /\ WasTrue("G7ResourceExists") /\ Status \in {304, 412}

\* C4 as stated: the conditional checks are made in the order If-Match,
\* If-Unmodified-Since, If-None-Match, If-Modified-Since and before any write,
\* a failing check of the first two ends 412 before the last two are looked
\* at, a matching If-None-Match ends 304/412 before If-Modified-Since is
\* looked at, and in every run that ends 304 or 412 no write callback has been
\* invoked.
C4_AsStated ==
    /\ ConditionalOrder
    /\ ConditionalPrecedence
    /\ EndedNotModifiedOrFailed => NoWriteInvoked

\* C4, amended: as stated, except that a run which ends 304 or 412 has invoked
\* no write callback only when the status comes from a conditional check; a
\* run that ends 304 or 412 after a write callback was invoked ended at
\* M20, N11 or P11 with the status its write callback returned as an error.
C4_ConditionalsBeforeWrites ==
    /\ ConditionalOrder
    /\ ConditionalPrecedence
    /\ EndedNotModifiedOrFailed =>
           IF decisions[Len(decisions)][1].node \in
                  {"G11EtagInIfMatch", "H12LastModifiedGreaterThanUMS", "J18GetHead",
                   "L17IfLastModifiedGreaterThanMS"}
           THEN NoWriteInvoked
           ELSE /\ decisions[Len(decisions)][1].node \in
                       {"M20DeleteEnacted", "N11Redirect", "P11NewResource"}
                /\ \E cb \in {resource.delete_resource, resource.process_post,
                              resource.create_path, resource.process_put} :
                       cb.ret = Err(Status)

\* C4 witness: If-Match fails on a request whose If-None-Match holds * (it
\* would give 304 or 412 by itself): the run has ended 412 on If-Match alone
C4_Witness ==
    /\ Done
    /\ Status = 412
    /\ WasFalse("G11EtagInIfMatch")
    /\ HasStar("If-None-Match")
    /\ MethodIsGetOrHead
    /\ NoWriteInvoked


---------------------------------------------------------------------------
(* C5: the ETag match test *)

\* C5: the match test over If-Match (G11) and over If-None-Match (K13)
\* yields a result, and the result is true iff some entry of the header is
\* the strong tag "E" or the weak tag W/"E" of the resource's ETag E; it is
\* false when generate_etag yields none.
C5_MatchTest ==
    \A test \in {<<"G11EtagInIfMatch", "If-Match">>,
                 <<"K13ETagInIfNoneMatch", "If-None-Match">>} :
        /\ ~(Aborted /\ state = D(test[1]))
        /\ Evaluated(test[1]) => (WasTrue(test[1]) <=> ETagMatches(test[2]))

---------------------------------------------------------------------------
(* C6: the If-Match precondition *)

\* C6: on an existing resource with If-Match the checks yield a result: the
\* run ends 412 iff the header holds no * and no entry matches the resource's
\* ETag, and goes on to If-Unmodified-Since otherwise; on a missing resource
\* with * in If-Match the run ends 412 at H7, whatever the method, before the
\* PUT check and with no write callback invoked.
C6_IfMatch ==
    /\ ~(Aborted /\ state = D("G11EtagInIfMatch"))
    /\ (WasTrue("G8IfMatchExists") /\ IsSome(IfMatchExit)) =>
           IF ~HasStar("If-Match") /\ ~ETagMatches("If-Match")
           THEN Unwrap(IfMatchExit) = End(412) /\ EndsWith(412)
           ELSE Unwrap(IfMatchExit) = D("H10IfUnmodifiedSinceExists")
    /\ (WasFalse("G7ResourceExists") /\ HasStar("If-Match")) =>
           /\ ~Evaluated("I7Put")
           /\ NoWriteInvoked
           /\ Evaluated("H7IfMatchStarExists") => EndsWith(412)
           /\ Done => Status = 412

---------------------------------------------------------------------------
(* C7: If-None-Match *)

\* C7: on an existing resource past If-Match and If-Unmodified-Since, with
\* If-None-Match, the checks yield a result: when the header holds * or an
\* entry that matches the resource's ETag the run ends 304 for GET and HEAD
\* and 412 for every other method; when nothing matches it goes on to
\* If-Modified-Since.
C7_IfNoneMatch ==
    /\ ~(Aborted /\ state = D("K13ETagInIfNoneMatch"))
    /\ (WasTrue("I12IfNoneMatchExists") /\ IsSome(IfNoneMatchExit)) =>
           IF HasStar("If-None-Match") \/ ETagMatches("If-None-Match")
           THEN IF MethodIsGetOrHead
                THEN Unwrap(IfNoneMatchExit) = End(304) /\ EndsWith(304)
                ELSE Unwrap(IfNoneMatchExit) = End(412) /\ EndsWith(412)
           ELSE Unwrap(IfNoneMatchExit) = D("L13IfModifiedSinceExists")

---------------------------------------------------------------------------
(* C8: If-Unmodified-Since *)

\* The header is present, its first value parses and the resource was
\* modified strictly later
UnmodifiedSinceFails ==
    /\ has_header(context.request, "If-Unmodified-Since")
    /\ DateParses("If-Unmodified-Since")
    /\ ModifiedAfter(DateOf("If-Unmodified-Since"))

\* C8: on an existing resource, once the run has left the If-Unmodified-Since
\* checks, it has ended 412 iff the header is present, its first value parses
\* and last_modified yields a strictly later date; otherwise it goes on to
\* If-None-Match, as it does without the header, and an unparseable header
\* leaves no date in the context.
C8_IfUnmodifiedSince ==
    IsSome(IfUnmodifiedSinceExit) =>
        /\ WasTrue("G7ResourceExists")
        /\ IF UnmodifiedSinceFails
           THEN Unwrap(IfUnmodifiedSinceExit) = End(412) /\ EndsWith(412)
           ELSE /\ Unwrap(IfUnmodifiedSinceExit) = D("I12IfNoneMatchExists")
                /\ state = D("I12IfNoneMatchExists") \/ Evaluated("I12IfNoneMatchExists")
        /\ ~DateParses("If-Unmodified-Since") => context.if_unmodified_since = None

\* C8 witness: the resource was modified after the date of the header and the
\* run has ended 412 at H12
C8_Witness ==
    /\ Done
    /\ Status = 412
    /\ UnmodifiedSinceFails
    /\ WasTrue("H12LastModifiedGreaterThanUMS")

---------------------------------------------------------------------------
(* C9: If-Modified-Since *)

\* The header is present and its first value parses
ModifiedSinceReadable ==
    has_header(context.request, "If-Modified-Since") /\ DateParses("If-Modified-Since")

\* C9: once the run has left the If-Modified-Since checks: when the header is
\* present, parses and its date is not later than the clock, the clock was
\* read and the run has ended 304 unless last_modified yields a date strictly
\* later than the header's, in which case it goes on to the DELETE check;
\* when the header is absent, unparseable or later than the clock, it goes on
\* to the DELETE check.
C9_IfModifiedSince ==
    IsSome(IfModifiedSinceExit) =>
        /\ ModifiedSinceReadable => IsSome(utc_now)
        /\ IF /\ ModifiedSinceReadable
              /\ ~(DateOf("If-Modified-Since") > Unwrap(utc_now))
              /\ ~ModifiedAfter(DateOf("If-Modified-Since"))
           THEN Unwrap(IfModifiedSinceExit) = End(304) /\ EndsWith(304)
           ELSE /\ Unwrap(IfModifiedSinceExit) = D("M16Delete")
                /\ state = D("M16Delete") \/ Evaluated("M16Delete")
        /\ ~DateParses("If-Modified-Since") => context.if_modified_since = None

\* C9 witness: the header's date is the date the resource was last modified
\* and is not in the future: the run has ended 304 at L17
C9_Witness ==
    /\ Done
    /\ Status = 304
    /\ ModifiedSinceReadable
    /\ resource.last_modified = Some(DateOf("If-Modified-Since"))
    /\ WasFalse("L15IfModifiedSinceGreaterThanNow")
    /\ WasFalse("L17IfLastModifiedGreaterThanMS")


---------------------------------------------------------------------------
(* C10: negotiation gating *)

\* The four axes in order: the header, the node that asks for it, the
\* selection node
Axes ==
    <<[header |-> "Accept", exists |-> "C3AcceptExists",
       selection |-> "C4AcceptableMediaTypeAvailable"],
      [header |-> "Accept-Language", exists |-> "D4AcceptLanguageExists",
       selection |-> "D5AcceptableLanguageAvailable"],
      [header |-> "Accept-Charset", exists |-> "E5AcceptCharsetExists",
       selection |-> "E6AcceptableCharsetAvailable"],
      [header |-> "Accept-Encoding", exists |-> "F6AcceptEncodingExists",
       selection |-> "F7AcceptableEncodingAvailable"]>>

\* What the matching function of axis k returns for the request and the
\* resource, and the value the context keeps for the axis
Matching(k) ==
    CASE k = 1 -> matching_content_type(resource, context.request)
      [] k = 2 -> matching_language(resource, context.request)
      [] k = 3 -> matching_charset(resource, context.request)
      [] k = 4 -> matching_encoding(resource, context.request)
Selected(k) ==
    CASE k = 1 -> context.selected_media_type
      [] k = 2 -> context.selected_language
      [] k = 3 -> context.selected_charset
      [] k = 4 -> context.selected_encoding

\* The request carries the header of axis k and the matching function
\* returns none
AxisFails(k) == has_header(context.request, Axes[k].header) /\ ~IsSome(Matching(k))

\* The first axis that fails, 0 when none does
FirstFailingAxis == FirstIndex(4, AxisFails)

---------------------------------------------------------------------------
(* C11: matching_content_type with an Accept header *)

\* The kind of match of the i-th produced type with the j-th acceptable one
PairKind(i, j) ==
    MediaType_matches(MediaType_parse_string(resource.produces[i]),
                      as_media_type(accept(context.request)[j]))

\* The pairs (produced, acceptable) and those that match
MediaPairs ==
    (1..Len(resource.produces)) \X (1..Len(accept(context.request)))
MatchingMediaPairs == {pair \in MediaPairs : PairKind(pair[1], pair[2]) # MatchNone}

\* The best kind among the matching pairs: Full, failing that SubStar,
\* failing that Star
BestKind ==
    CHOOSE k \in {PairKind(pair[1], pair[2]) : pair \in MatchingMediaPairs} :
        \A pair \in MatchingMediaPairs : k <= PairKind(pair[1], pair[2])

\* The first entry of produces that has a pair of the best kind
BestProduced ==
    CHOOSE i \in 1..Len(resource.produces) :
        /\ \E pair \in MatchingMediaPairs : pair[1] = i /\ PairKind(i, pair[2]) = BestKind
        /\ \A pair \in MatchingMediaPairs :
               PairKind(pair[1], pair[2]) = BestKind => i <= pair[1]

\* C11: once C4 has applied matching_content_type to a request with an Accept
\* header, its result is none iff no (produced, acceptable) pair matches, and
\* otherwise the entry of produces of the first pair of the best kind (Full,
\* then SubStar, then Star), the earlier entry of produces on a tie.
C11_MatchingContentType ==
    Evaluated("C4AcceptableMediaTypeAvailable") =>
        IF MatchingMediaPairs = {}
        THEN /\ WasFalse("C4AcceptableMediaTypeAvailable")
             /\ context.selected_media_type = None
        ELSE /\ WasTrue("C4AcceptableMediaTypeAvailable")
             /\ context.selected_media_type = Some(resource.produces[BestProduced])

---------------------------------------------------------------------------
(* C12: the media type of a request without an Accept header *)

\* The finalizer has run
Finalised == pc = "finalised"

\* The values of a response header, none when the response does not carry it
ResponseHeader(header) ==
    IF header \in DOMAIN context.response.headers
    THEN context.response.headers[header] ELSE << >>

\* C12: when the request carries no Accept header, after the state machine and
\* finalise_response have run the Content-Type of the response is one value
\* whose media type is the first entry of the resource's produces list.
C12_NoAcceptHeader ==
    (Finalised /\ ~has_accept_header(context.request) /\ resource.produces # << >>) =>
        /\ Len(ResponseHeader("Content-Type")) = 1
        /\ ResponseHeader("Content-Type")[1].value = resource.produces[1]

---------------------------------------------------------------------------
(* C13: matching_language *)

\* The j-th acceptable language of the request, and whether it remains once
\* weight 0 is dropped
AcceptableLanguage(j) == as_media_language(accept_language(context.request)[j])
RemainingLanguages ==
    {j \in 1..Len(accept_language(context.request)) : AcceptableLanguage(j).weight > 0}

\* The j-th acceptable language is visited before the k-th: a greater
\* weight first, the order of the header among equal weights
LanguageBefore(j, k) ==
    \/ AcceptableLanguage(j).weight > AcceptableLanguage(k).weight
    \/ AcceptableLanguage(j).weight = AcceptableLanguage(k).weight /\ j < k

\* The provided language s is accepted by the acceptable language a
LanguageAccepts(a, s) ==
    \/ a.main = <<"*">>
    \/ s = MediaLanguage_to_string(a)
    \/ StartsWith(MediaLanguage_to_string(a), s \o <<"-">>)

\* The pairs (acceptable, provided) that match
MatchingLanguagePairs ==
    {pair \in RemainingLanguages \X (1..Len(resource.languages_provided)) :
        LanguageAccepts(AcceptableLanguage(pair[1]), resource.languages_provided[pair[2]])}

\* The first matching pair: the acceptable language visited first, then the
\* provided language declared first
FirstLanguagePair ==
    CHOOSE pair \in MatchingLanguagePairs :
        \A other \in MatchingLanguagePairs :
            \/ LanguageBefore(pair[1], other[1])
            \/ pair[1] = other[1] /\ pair[2] <= other[2]

\* The client's top remaining acceptable language
TopLanguage ==
    CHOOSE j \in RemainingLanguages :
        \A k \in RemainingLanguages \ {j} : LanguageBefore(j, k)

\* What the claim says matching_language returns
ExpectedLanguage ==
    IF has_accept_language_header(context.request) /\ accept_language(context.request) # << >>
    THEN IF resource.languages_provided # << >>
         THEN IF MatchingLanguagePairs = {} THEN None
              ELSE Some(resource.languages_provided[FirstLanguagePair[2]])
         ELSE IF RemainingLanguages = {} THEN None
              ELSE Some(MediaLanguage_to_string(AcceptableLanguage(TopLanguage)))
    ELSE IF resource.languages_provided = << >> THEN Some(TxtStar)
         ELSE Some(resource.languages_provided[1])

\* C13: matching_language drops the acceptable languages of weight 0, visits the
\* rest by descending weight and, for each, the provided languages in declared
\* order, and returns the first provided language accepted (the acceptable one
\* is *, equals it, or starts with it followed by '-'), none iff no pair
\* matches; with nothing provided it returns the top remaining acceptable
\* language; with no or an empty Accept-Language header the first provided
\* language, or * when nothing is provided.  D5 answers true iff it returns
\* a language.
C13_MatchingLanguage ==
    /\ matching_language(resource, context.request) = ExpectedLanguage
    /\ Evaluated("D5AcceptableLanguageAvailable") =>
           (WasTrue("D5AcceptableLanguageAvailable") <=> ExpectedLanguage # None)
    /\ ~LanguageAccepts(as_media_language(h(<<"e","n","-","g","b">>)), <<"e">>)

\* A run in which the second acceptable language is visited first and the
\* second provided language is the one returned
C13_Witness ==
    /\ WasTrue("D5AcceptableLanguageAvailable")
    /\ Len(resource.languages_provided) = 2
    /\ MatchingLanguagePairs # {}
    /\ FirstLanguagePair = <<2, 2>>
    /\ \E pair \in MatchingLanguagePairs : pair[1] = 1
    /\ context.selected_language = Some(resource.languages_provided[2])

---------------------------------------------------------------------------
(* C14: charset negotiation with a non-empty Accept-Charset header *)

\* The client's list names * or ISO-8859-1 (in any case)
NamesDefaultCharset ==
    \E j \in 1..Len(accept_charset(context.request)) :
        \/ accept_charset(context.request)[j].value = <<"*">>
        \/ TextUpper(accept_charset(context.request)[j].value) = TxtIso88591

\* The client's acceptable charsets as (name, weight), ISO-8859-1 with
\* weight 1 appended iff the list names neither * nor ISO-8859-1
AcceptableCharsets ==
    [j \in 1..Len(accept_charset(context.request)) |->
        as_charset(accept_charset(context.request)[j])]
    \o (IF NamesDefaultCharset THEN << >>
        ELSE <<[charset |-> TxtIso88591, weight |-> 10]>>)

\* Those that remain once weight 0 is dropped, and the order they are visited in
RemainingCharsets ==
    {j \in 1..Len(AcceptableCharsets) : AcceptableCharsets[j].weight > 0}
CharsetBefore(j, k) ==
    \/ AcceptableCharsets[j].weight > AcceptableCharsets[k].weight
    \/ AcceptableCharsets[j].weight = AcceptableCharsets[k].weight /\ j < k
CharsetVisitedAt(n) ==
    CHOOSE j \in RemainingCharsets :
        Cardinality({k \in RemainingCharsets : CharsetBefore(k, j)}) = n - 1

\* The provided charset s is equal, ignoring case, to the acceptable charset
\* a, or a is the wildcard
CharsetAccepts(a, s) ==
    a.charset = <<"*">> \/ TextUpper(s) = TextUpper(a.charset)

MatchingCharsetPairs ==
    {pair \in RemainingCharsets \X (1..Len(resource.charsets_provided)) :
        CharsetAccepts(AcceptableCharsets[pair[1]], resource.charsets_provided[pair[2]])}

\* The highest-weighted acceptable charset that matches anything, and the
\* first provided charset it matches
FirstCharsetPair ==
    CHOOSE pair \in MatchingCharsetPairs :
        \A other \in MatchingCharsetPairs :
            \/ CharsetBefore(pair[1], other[1])
            \/ pair[1] = other[1] /\ pair[2] <= other[2]

\* The request has an Accept-Charset header with at least one value
NonEmptyAcceptCharset ==
    has_accept_charset_header(context.request) /\ accept_charset(context.request) # << >>

\* C14: with a non-empty Accept-Charset header, ISO-8859-1 with weight 1 is
\* appended to the client's list iff it names neither * nor ISO-8859-1, weight
\* 0 is dropped and the rest ordered by descending weight; with a non-empty
\* charsets_provided the result is the first provided charset equal (ignoring
\* case) to, or wildcarded by, the highest-weighted acceptable charset that
\* matches anything, and none, hence 406, iff no provided charset matches any
\* remaining acceptable charset.
C14_MatchingCharset ==
    NonEmptyAcceptCharset =>
        /\ sort_media_charsets(accept_charset(context.request)) =
               [n \in 1..Cardinality(RemainingCharsets) |->
                   AcceptableCharsets[CharsetVisitedAt(n)]]
        /\ resource.charsets_provided # << >> =>
               /\ matching_charset(resource, context.request) =
                      IF MatchingCharsetPairs = {} THEN None
                      ELSE Some(resource.charsets_provided[FirstCharsetPair[2]])
               /\ Evaluated("E6AcceptableCharsetAvailable") =>
                      /\ WasFalse("E6AcceptableCharsetAvailable") <=> MatchingCharsetPairs = {}
                      /\ WasTrue("E6AcceptableCharsetAvailable") =>
                             context.selected_charset =
                                 Some(resource.charsets_provided[FirstCharsetPair[2]])
               /\ (Done /\ MatchingCharsetPairs = {}) => Status = 406

\* A run that selected the second provided charset through the second
\* acceptable charset, the appended ISO-8859-1 being last in the order
C14_Witness ==
    /\ NonEmptyAcceptCharset
    /\ ~NamesDefaultCharset
    /\ WasTrue("E6AcceptableCharsetAvailable")
    /\ Len(resource.charsets_provided) = 2
    /\ MatchingCharsetPairs # {}
    /\ FirstCharsetPair = <<2, 2>>
    /\ context.selected_charset = Some(resource.charsets_provided[2])

---------------------------------------------------------------------------
(* C15: a resource without a charset list *)

\* The charset parameter of the response's Content-Type
ContentTypeCharset == GetParam(ResponseHeader("Content-Type")[1], <<"c","h","a","r","s","e","t">>)

\* C15 as stated: if charsets_provided is empty, the charset chosen by
\* charset negotiation is ISO-8859-1, for every Accept-Charset header.
C15_AsStated ==
    resource.charsets_provided = << >> =>
        /\ Evaluated("E6AcceptableCharsetAvailable") =>
               /\ WasTrue("E6AcceptableCharsetAvailable")
               /\ matching_charset(resource, context.request) = Some(TxtIso88591)
        /\ Finalised => ContentTypeCharset = TxtIso88591

\* The client's highest-weighted remaining acceptable charset
TopCharset == AcceptableCharsets[CharsetVisitedAt(1)].charset

\* C15, amended: if charsets_provided is empty, the charset chosen is
\* ISO-8859-1 when the request has no Accept-Charset header or an empty one;
\* with a non-empty header it is the client's highest-weighted acceptable
\* charset that remains after the defaulting rule and the weight-0 filter
\* (the response falls back to ISO-8859-1 when that is *), and none, hence
\* 406, when nothing remains.
C15_NoCharsetList ==
    resource.charsets_provided = << >> =>
        /\ matching_charset(resource, context.request) =
               IF ~NonEmptyAcceptCharset THEN Some(TxtIso88591)
               ELSE IF RemainingCharsets = {} THEN None
               ELSE Some(TopCharset)
        /\ Evaluated("E6AcceptableCharsetAvailable") =>
               (WasFalse("E6AcceptableCharsetAvailable")
                    <=> (NonEmptyAcceptCharset /\ RemainingCharsets = {}))
        /\ (Done /\ NonEmptyAcceptCharset /\ RemainingCharsets = {}) => Status = 406
        /\ Finalised =>
               ContentTypeCharset =
                   IF NonEmptyAcceptCharset /\ RemainingCharsets # {} /\ TopCharset # TxtStar
                   THEN TopCharset ELSE TxtIso88591

\* A response whose charset is the client's utf-8, the resource providing no list
C15_Witness ==
    /\ Finalised
    /\ Status = 200
    /\ resource.charsets_provided = << >>
    /\ WasTrue("E6AcceptableCharsetAvailable")
    /\ ContentTypeCharset = <<"u","t","f","-","8">>

---------------------------------------------------------------------------
(* C16: encoding negotiation with an Accept-Encoding header *)

\* The client's list names * or identity (in any case)
NamesDefaultEncoding ==
    \E j \in 1..Len(accept_encoding(context.request)) :
        \/ accept_encoding(context.request)[j].value = <<"*">>
        \/ TextLower(accept_encoding(context.request)[j].value) = TxtIdentity

\* The client's acceptable encodings as (name, weight), identity with weight
\* 1 appended iff the list names neither * nor identity
AcceptableEncodings ==
    [j \in 1..Len(accept_encoding(context.request)) |->
        as_encoding(accept_encoding(context.request)[j])]
    \o (IF NamesDefaultEncoding THEN << >>
        ELSE <<[encoding |-> TxtIdentity, weight |-> 10]>>)

\* Those that remain once weight 0 is dropped, and the order they are visited in
RemainingEncodings ==
    {j \in 1..Len(AcceptableEncodings) : AcceptableEncodings[j].weight > 0}
EncodingBefore(j, k) ==
    \/ AcceptableEncodings[j].weight > AcceptableEncodings[k].weight
    \/ AcceptableEncodings[j].weight = AcceptableEncodings[k].weight /\ j < k
EncodingVisitedAt(n) ==
    CHOOSE j \in RemainingEncodings :
        Cardinality({k \in RemainingEncodings : EncodingBefore(k, j)}) = n - 1

\* The provided encoding s is equal, ignoring case, to the acceptable
\* encoding a, or a is the wildcard
EncodingAccepts(a, s) ==
    a.encoding = <<"*">> \/ TextLower(s) = TextLower(a.encoding)

MatchingEncodingPairs ==
    {pair \in RemainingEncodings \X (1..Len(resource.encodings_provided)) :
        EncodingAccepts(AcceptableEncodings[pair[1]], resource.encodings_provided[pair[2]])}

FirstEncodingPair ==
    CHOOSE pair \in MatchingEncodingPairs :
        \A other \in MatchingEncodingPairs :
            \/ EncodingBefore(pair[1], other[1])
            \/ pair[1] = other[1] /\ pair[2] <= other[2]

\* The resource provides identity, and the header gives weight 0 neither to
\* identity nor to *
ProvidesIdentity ==
    \E i \in 1..Len(resource.encodings_provided) :
        resource.encodings_provided[i] = TxtIdentity
IdentityNotRefused ==
    \A j \in 1..Len(accept_encoding(context.request)) :
        (\/ accept_encoding(context.request)[j].value = <<"*">>
         \/ TextLower(accept_encoding(context.request)[j].value) = TxtIdentity)
            => as_encoding(accept_encoding(context.request)[j]).weight > 0

\* C16: with an Accept-Encoding header and a non-empty encodings_provided,
\* identity with weight 1 is appended to the client's list iff it names
\* neither * nor identity, weight 0 is dropped and the rest ordered by
\* descending weight; the result is the first provided encoding equal
\* (ignoring case) to, or wildcarded by, the highest-weighted acceptable
\* encoding that matches anything, and none iff nothing matches.  Hence a
\* resource that provides identity matches every header that gives weight 0
\* neither to identity nor to *.
C16_MatchingEncoding ==
    has_accept_encoding_header(context.request) =>
        /\ sort_encodings(accept_encoding(context.request)) =
               [n \in 1..Cardinality(RemainingEncodings) |->
                   AcceptableEncodings[EncodingVisitedAt(n)]]
        /\ resource.encodings_provided # << >> =>
               /\ matching_encoding(resource, context.request) =
                      IF MatchingEncodingPairs = {} THEN None
                      ELSE Some(resource.encodings_provided[FirstEncodingPair[2]])
               /\ Evaluated("F7AcceptableEncodingAvailable") =>
                      /\ WasFalse("F7AcceptableEncodingAvailable") <=> MatchingEncodingPairs = {}
                      /\ WasTrue("F7AcceptableEncodingAvailable") =>
                             context.selected_encoding =
                                 Some(resource.encodings_provided[FirstEncodingPair[2]])
               /\ (ProvidesIdentity /\ IdentityNotRefused) =>
                      matching_encoding(resource, context.request) # None

\* A run that selected the second provided encoding through the second
\* acceptable encoding, the client's list naming neither * nor identity
C16_Witness ==
    /\ has_accept_encoding_header(context.request)
    /\ ~NamesDefaultEncoding
    /\ WasTrue("F7AcceptableEncodingAvailable")
    /\ Len(resource.encodings_provided) = 2
    /\ MatchingEncodingPairs # {}
    /\ FirstEncodingPair = <<2, 2>>
    /\ context.selected_encoding = Some(resource.encodings_provided[2])

---------------------------------------------------------------------------
(* C17: encoding negotiation when the resource provides no encoding list *)

\* identity is among the client's acceptable encodings that remain, with
\* whatever weight
IdentityRemains ==
    \E j \in RemainingEncodings : AcceptableEncodings[j].encoding = TxtIdentity

\* C17: with an empty encodings_provided list and an Accept-Encoding header,
\* the result is identity iff identity is present among the client's
\* acceptable encodings after the defaulting rule and the weight-0 filter,
\* whatever non-zero weight the client gave it, and none otherwise.
C17_NoEncodingList ==
    (/\ has_accept_encoding_header(context.request)
     /\ resource.encodings_provided = << >>
     /\ Evaluated("F7AcceptableEncodingAvailable")) =>
        /\ matching_encoding(resource, context.request) =
               IF IdentityRemains THEN Some(TxtIdentity) ELSE None
        /\ WasTrue("F7AcceptableEncodingAvailable") <=> IdentityRemains

---------------------------------------------------------------------------
(* C18: Content-Language mirrors the negotiated language *)

\* The response carries the header with the one value `text`, without parameters
CarriesHeader(header, text) ==
    /\ Len(ResponseHeader(header)) = 1
    /\ ResponseHeader(header)[1].value = text
    /\ ResponseHeader(header)[1].params = << >>

\* The response carries no such header
LacksHeader(header) == ~response_has_header(context.response, header)

\* D5 selected a language other than *
SelectsLanguage ==
    /\ WasTrue("D5AcceptableLanguageAvailable")
    /\ matching_language(resource, context.request) # Some(TxtStar)

\* C18: when D5 selects a language L other than *, context.selected_language
\* becomes L and the response carries Content-Language: L; when the selected
\* value is * (or D5 is not evaluated, or finds none) neither is set; in every
\* terminated run Content-Language is set iff context.selected_language is,
\* with the same value.
C18_ContentLanguage ==
    /\ SelectsLanguage =>
           /\ context.selected_language = matching_language(resource, context.request)
           /\ CarriesHeader("Content-Language", Unwrap(context.selected_language))
    /\ ~SelectsLanguage =>
           /\ context.selected_language = None
           /\ LacksHeader("Content-Language")
    /\ (Done \/ Finalised) =>
           IF IsSome(context.selected_language)
           THEN CarriesHeader("Content-Language", Unwrap(context.selected_language))
           ELSE LacksHeader("Content-Language")

\* A terminated run whose response says Content-Language: en-gb
C18_Witness ==
    /\ Done
    /\ SelectsLanguage
    /\ context.selected_language = Some(<<"e","n","-","g","b">>)
    /\ CarriesHeader("Content-Language", <<"e","n","-","g","b">>)

\* A terminated run in which D5 selected *: no language, no header
C18_WitnessStar ==
    /\ Done
    /\ WasTrue("D5AcceptableLanguageAvailable")
    /\ matching_language(resource, context.request) = Some(TxtStar)
    /\ context.selected_language = None

---------------------------------------------------------------------------
(* C19: Content-Encoding *)

\* An encoding was selected and it is not identity
SelectedNotIdentity ==
    IsSome(context.selected_encoding) /\ Unwrap(context.selected_encoding) # TxtIdentity

\* C19: the response carries a Content-Encoding header iff an encoding was
\* selected and the selected encoding is not identity; the header's value is
\* then context.selected_encoding, which is what F7 found.
C19_ContentEncoding ==
    /\ response_has_header(context.response, "Content-Encoding") <=> SelectedNotIdentity
    /\ SelectedNotIdentity =>
           CarriesHeader("Content-Encoding", Unwrap(context.selected_encoding))
    /\ IsSome(context.selected_encoding) <=> WasTrue("F7AcceptableEncodingAvailable")
    /\ WasTrue("F7AcceptableEncodingAvailable") =>
           context.selected_encoding = matching_encoding(resource, context.request)

\* A terminated run whose response says Content-Encoding: GZIP
C19_Witness ==
    /\ Done
    /\ context.selected_encoding = Some(<<"G","Z","I","P">>)
    /\ CarriesHeader("Content-Encoding", <<"G","Z","I","P">>)

\* A terminated run that selected identity and carries no Content-Encoding
C19_WitnessIdentity ==
    /\ Done
    /\ context.selected_encoding = Some(TxtIdentity)
    /\ LacksHeader("Content-Encoding")

---------------------------------------------------------------------------
(* C20: a failing write callback ends the run with its status *)

\* The callback was invoked in this run and returned Err(s)
Failed(callback) ==
    Invoked(callback) /\ resource[callback].ret.tag = "Err"

\* The run went from `node`, where the callback failed with status s,
\* straight to End(s): that decision is the last one of the run, the callback
\* the last one the machine invoked, and the status written is s.
ShortCircuits(callback, node) ==
    /\ decisions # << >>
    /\ decisions[Len(decisions)] = <<D(node), FALSE, End(resource[callback].ret.val)>>
    /\ state = End(resource[callback].ret.val)
    /\ ~Finalised => calls[Len(calls)] = callback
    /\ (Done \/ Finalised) => Status = resource[callback].ret.val

\* C20: whenever delete_resource, process_post, process_put or create_path
\* returns Err(s), the machine's next node is End(s), the final status is
\* exactly s and no further decision callback is invoked; after a create_path
\* error no Location header is set and request_path is what it was.
C20_FailureShortCircuit ==
    /\ Failed("delete_resource") => ShortCircuits("delete_resource", "M20DeleteEnacted")
    /\ Failed("process_post") => ShortCircuits("process_post", "N11Redirect")
    /\ Failed("process_put") => ShortCircuits("process_put", "P11NewResource")
    /\ Failed("create_path") =>
           /\ ShortCircuits("create_path", "N11Redirect")
           /\ LacksHeader("Location")
           /\ context.request.request_path = DefaultRequest.request_path

\* A POST whose create_path failed with 500: the run ended 500, no Location
C20_Witness ==
    /\ Done
    /\ Failed("create_path")
    /\ Status = 500
    /\ LacksHeader("Location")
    /\ ~Invoked("process_post")

---------------------------------------------------------------------------
(* C21: POST at N11 *)

\* A path that starts with "/", has no empty segment and no trailing "/"
NormalisedPath(path) ==
    /\ path # << >>
    /\ path[1] = "/"
    /\ \A i \in 1..(Len(path) - 1) : ~(path[i] = "/" /\ path[i + 1] = "/")
    /\ Len(path) > 1 => path[Len(path)] # "/"

\* The path that create_path returned: the default returns the request path
CreatedPath ==
    IF resource.create_path.ret.tag = "OkRequestPath"
    THEN DefaultRequest.request_path
    ELSE resource.create_path.ret.val

\* The Location of a created resource: the normalised path made of the
\* segments of the base path followed by the segments of the created path
IsJoinedLocation(location) ==
    /\ NormalisedPath(location)
    /\ NonEmpty(Split(location, "/"))
           = NonEmpty(Split(context.request.base_path, "/"))
                 \o NonEmpty(Split(CreatedPath, "/"))

\* The callback N11 invokes after post_is_create
PostCallback == IF resource.post_is_create THEN "create_path" ELSE "process_post"
OtherPostCallback == IF resource.post_is_create THEN "process_post" ELSE "create_path"

\* C21: at N11, create_path is called when post_is_create is true and
\* process_post otherwise, never both; after create_path returned Ok(p) the
\* response Location is the join of base_path and p, normalised with a
\* leading "/", and request_path is p; when the callback returned Ok, the run
\* goes to 303 if the callback set context.redirect and to P11 otherwise.  (A
\* callback that returns Err(s) ends the run at s, redirect or not.)
C21_PostAtN11 ==
    Evaluated("N11Redirect") =>
        /\ Invoked("post_is_create")
        /\ Invoked(PostCallback)
        /\ ~Invoked(OtherPostCallback)
        /\ Cardinality({i \in 1..Len(calls) : calls[i] = PostCallback}) = 1
        /\ (resource.post_is_create /\ ~Failed("create_path")) =>
               /\ Len(ResponseHeader("Location")) = 1
               /\ ResponseHeader("Location")[1].params = << >>
               /\ IsJoinedLocation(ResponseHeader("Location")[1].value)
               /\ context.request.request_path = CreatedPath
        /\ ~Failed(PostCallback) =>
               /\ context.redirect = resource[PostCallback].redirect
               /\ NextOf("N11Redirect") = IF resource[PostCallback].redirect
                                          THEN End(303)
                                          ELSE D("P11NewResource")
               /\ (resource[PostCallback].redirect /\ (Done \/ Finalised)) => Status = 303
               /\ (~resource[PostCallback].redirect /\ (Done \/ Finalised)) =>
                      Evaluated("P11NewResource")
        /\ Failed(PostCallback) =>
               NextOf("N11Redirect") = End(resource[PostCallback].ret.val)

\* A POST whose process_post set context.redirect ended 303
C21_Witness ==
    /\ Done
    /\ Evaluated("N11Redirect")
    /\ ~resource.post_is_create
    /\ resource.process_post.redirect
    /\ ~Failed("process_post")
    /\ Status = 303

\* A POST whose create_path returned a path without setting redirect went on
\* to P11 with the joined Location
C21_WitnessCreate ==
    /\ Done
    /\ Evaluated("N11Redirect")
    /\ resource.post_is_create
    /\ resource.create_path.ret = Ok(<<"n","e","w","/","/","p","a","t","h","/">>)
    /\ context.request.base_path = <<"b","a","s","e","/","/","p","a","t","h","/">>
    /\ ~resource.create_path.redirect
    /\ Evaluated("P11NewResource")
    /\ ResponseHeader("Location")[1].value = <<"/","b","a","s","e","/","p","a","t","h","/","n","e","w","/","p","a","t","h">>

---------------------------------------------------------------------------
(* C22: a POST that creates a resource *)

\* POST / with base_path /base/path
CreatingRequest ==
    [DefaultRequest EXCEPT !.method = <<"P","O","S","T">>, !.base_path = <<"/","b","a","s","e","/","p","a","t","h">>]

\* POST allowed, post_is_create true, create_path returning Ok("/new/path"),
\* every other callback at its default
CreatingResource ==
    [DefaultResource EXCEPT
        !.allowed_methods = AllMethodsAllowed,
        !.post_is_create = TRUE,
        !.create_path = Pure(Ok(<<"/","n","e","w","/","p","a","t","h">>))]

\* C22: a POST / to a resource that allows POST, with post_is_create true,
\* create_path returning Ok("/new/path"), base_path /base/path and every
\* other callback at its default, ends with status 201 and
\* Location: /base/path/new/path.
C22_PostCreates ==
    (/\ Done
     /\ context.request = [CreatingRequest EXCEPT !.request_path = <<"/","n","e","w","/","p","a","t","h">>]
     /\ resource = CreatingResource)
    => /\ Status = 201
       /\ CarriesHeader("Location", <<"/","b","a","s","e","/","p","a","t","h","/","n","e","w","/","p","a","t","h">>)

\* The same request to a resource that is missing and allows a POST to a
\* missing resource ends 201 with that Location.
C22_PostCreatesMissing ==
    (/\ Done
     /\ context.request = [CreatingRequest EXCEPT !.request_path = <<"/","n","e","w","/","p","a","t","h">>]
     /\ resource = [CreatingResource EXCEPT !.resource_exists = FALSE,
                                            !.allow_missing_post = TRUE])
    => /\ Status = 201
       /\ CarriesHeader("Location", <<"/","b","a","s","e","/","p","a","t","h","/","n","e","w","/","p","a","t","h">>)

\* The same request to the resource of C22, which exists by default, ends 204
\* with that Location.
C22_PostCreatesExisting ==
    (/\ Done
     /\ context.request = [CreatingRequest EXCEPT !.request_path = <<"/","n","e","w","/","p","a","t","h">>]
     /\ resource = CreatingResource)
    => /\ Status = 204
       /\ CarriesHeader("Location", <<"/","b","a","s","e","/","p","a","t","h","/","n","e","w","/","p","a","t","h">>)
       /\ WasFalse("P11NewResource")
       /\ ~context.new_resource

---------------------------------------------------------------------------
(* C23: the outcomes of a PUT *)

\* How often the callback was invoked in this run
TimesInvoked(callback) == Cardinality({i \in 1..Len(calls) : calls[i] = callback})

\* The callback left a non-empty body in the response
LeavesBody(callback) ==
    /\ IsSome(resource[callback].body)
    /\ Unwrap(resource[callback].body) # << >>

\* A PUT that passed the gates, negotiation and preconditions has returned
PutReturned ==
    /\ Done
    /\ TextUpper(context.request.method) = <<"P","U","T">>
    /\ Evaluated("I7Put") \/ Evaluated("O16Put")

\* The status of an existing resource after a successful write: 204 without
\* a body, with one 300 if multiple_choices and 200 otherwise
WrittenStatus(callback) ==
    IF ~LeavesBody(callback) THEN 204
    ELSE IF resource.multiple_choices THEN 300
    ELSE 200

\* C23: a PUT that passed the gates, negotiation and preconditions ends 301
\* with the Location when the resource is missing and moved_permanently
\* yields one; else 409, process_put not invoked, when is_conflict is true;
\* else process_put is invoked exactly once, and (when it returns Ok) a
\* missing resource ends 201 and an existing one 204 without a body, 200 with
\* the body process_put set, 300 with a body and multiple_choices.  (A
\* process_put that returns Err(s) ends the run at s.)
C23_PutOutcomes ==
    PutReturned =>
        IF ~resource.resource_exists /\ IsSome(resource.moved_permanently)
        THEN /\ Status = 301
             /\ CarriesHeader("Location", Unwrap(resource.moved_permanently))
             /\ TimesInvoked("process_put") = 0
        ELSE IF resource.is_conflict
        THEN /\ Status = 409
             /\ TimesInvoked("process_put") = 0
        ELSE /\ TimesInvoked("process_put") = 1
             /\ context.response.body = resource.process_put.body
             /\ Status = IF resource.process_put.ret.tag = "Err"
                         THEN resource.process_put.ret.val
                         ELSE IF ~resource.resource_exists THEN 201
                         ELSE WrittenStatus("process_put")

\* A PUT on an existing resource whose process_put set a body ended 200
C23_Witness ==
    /\ PutReturned
    /\ resource.resource_exists
    /\ ~resource.is_conflict
    /\ LeavesBody("process_put")
    /\ TimesInvoked("process_put") = 1
    /\ Status = 200

---------------------------------------------------------------------------
(* C24: the outcomes of a DELETE *)

\* A DELETE on an existing resource that passed the preconditions has returned
DeleteReturned ==
    /\ Done
    /\ TextUpper(context.request.method) = <<"D","E","L","E","T","E">>
    /\ resource.resource_exists
    /\ WasTrue("M16Delete")

\* C24: a DELETE on an existing resource that passed the preconditions
\* invokes delete_resource exactly once; Ok(false) ends 202, Err(s) ends s,
\* and Ok(true) ends 204 when the response has no body, 200 when the callback
\* left a non-empty body, 300 with a body when multiple_choices is true.
C24_DeleteOutcomes ==
    DeleteReturned =>
        /\ TimesInvoked("delete_resource") = 1
        /\ context.response.body = resource.delete_resource.body
        /\ Status = IF resource.delete_resource.ret.tag = "Err"
                    THEN resource.delete_resource.ret.val
                    ELSE IF ~resource.delete_resource.ret.val THEN 202
                    ELSE WrittenStatus("delete_resource")

\* A DELETE whose delete_resource returned Ok(true) and left a body ended 200
C24_Witness ==
    /\ DeleteReturned
    /\ resource.delete_resource.ret = Ok(TRUE)
    /\ LeavesBody("delete_resource")
    /\ ~resource.multiple_choices
    /\ Status = 200

\* A DELETE that was not enacted ended 202
C24_WitnessNotEnacted ==
    /\ DeleteReturned
    /\ resource.delete_resource.ret = Ok(FALSE)
    /\ Status = 202

\* A DELETE that was enacted and left an empty body ended 204
C24_WitnessEmptyBody ==
    /\ DeleteReturned
    /\ resource.delete_resource.ret = Ok(TRUE)
    /\ resource.delete_resource.body = Some(<< >>)
    /\ Status = 204

---------------------------------------------------------------------------
(* C25: a missing resource and a request that is not a PUT *)

\* A request that is not a PUT, to a missing resource, without If-Match: *,
\* has returned
MissingReturned ==
    /\ Done
    /\ ~resource.resource_exists
    /\ TextUpper(context.request.method) # <<"P","U","T">>
    /\ WasFalse("H7IfMatchStarExists")

\* The method is POST and the resource allows a POST to a missing resource
MissingPostAllowed ==
    /\ TextUpper(context.request.method) = <<"P","O","S","T">>
    /\ resource.allow_missing_post

\* The resource previously existed and has moved, permanently or temporarily
HasMoved ==
    /\ resource.previously_existed
    /\ IsSome(resource.moved_permanently) \/ IsSome(resource.moved_temporarily)

\* C25: for a missing resource and a request that is not a PUT: a resource
\* that previously existed ends 301 with the Location of moved_permanently,
\* else 307 with the Location of moved_temporarily, else 410 unless the method
\* is POST and allow_missing_post is true; one that did not previously exist
\* ends 404 unless the method is POST and allow_missing_post is true.  The
\* run reaches N11 in those POST cases only, with new_resource set, and a
\* write that succeeds without redirect then ends 201.
C25_MissingResource ==
    MissingReturned =>
        /\ (resource.previously_existed /\ IsSome(resource.moved_permanently)) =>
               /\ Status = 301
               /\ CarriesHeader("Location", Unwrap(resource.moved_permanently))
        /\ (/\ resource.previously_existed
            /\ ~IsSome(resource.moved_permanently)
            /\ IsSome(resource.moved_temporarily)) =>
               /\ Status = 307
               /\ CarriesHeader("Location", Unwrap(resource.moved_temporarily))
        /\ (~HasMoved /\ ~MissingPostAllowed) =>
               Status = IF resource.previously_existed THEN 410 ELSE 404
        /\ Evaluated("N11Redirect") <=> (~HasMoved /\ MissingPostAllowed)
        /\ Evaluated("N11Redirect") =>
               /\ context.new_resource
               /\ (~Failed(PostCallback) /\ ~context.redirect) => Status = 201

\* A POST to a resource that previously existed, has not moved and allows a
\* POST to a missing resource, created a resource and ended 201
C25_Witness ==
    /\ MissingReturned
    /\ resource.previously_existed
    /\ ~HasMoved
    /\ MissingPostAllowed
    /\ resource.post_is_create
    /\ Evaluated("N11Redirect")
    /\ Status = 201

\* A GET to a resource that previously existed and has not moved ended 410
C25_WitnessGone ==
    /\ MissingReturned
    /\ resource.previously_existed
    /\ ~HasMoved
    /\ TextUpper(context.request.method) = <<"G","E","T">>
    /\ Status = 410

---------------------------------------------------------------------------
(* C26: a method that is known but not allowed *)

\* The request method is in the list, letter case aside
MethodListed(methods) ==
    TextUpper(context.request.method) \in {TextUpper(methods[i]) : i \in 1..Len(methods)}

\* The gates before B10 pass: the service is available, the method is known
\* and the URI is not too long
ReachesMethodAllowed ==
    /\ resource.available
    /\ MethodListed(resource.known_methods)
    /\ ~resource.uri_too_long

\* The response carries Allow with exactly the allowed methods, in
\* declaration order
AllowListsAllowedMethods ==
    /\ "Allow" \in DOMAIN context.response.headers
    /\ Len(context.response.headers["Allow"]) = Len(resource.allowed_methods)
    /\ \A i \in 1..Len(resource.allowed_methods) :
           /\ context.response.headers["Allow"][i].value = resource.allowed_methods[i]
           /\ context.response.headers["Allow"][i].params = << >>

\* C26: when the earlier gates pass and the request method is in
\* known_methods but not in allowed_methods, both compared without regard to
\* letter case, the run ends 405 and the response's Allow header lists exactly
\* allowed_methods in declaration order; no run whose method is allowed
\* carries an Allow header.
C26_MethodNotAllowed ==
    /\ (/\ Done \/ Finalised
        /\ ReachesMethodAllowed
        /\ ~MethodListed(resource.allowed_methods)) =>
           /\ Status = 405
           /\ AllowListsAllowedMethods
    /\ MethodListed(resource.allowed_methods) => LacksHeader("Allow")

\* A trace request, known as TRACE and not allowed, ended 405 with
\* Allow: OPTIONS, GET, HEAD
C26_Witness ==
    /\ Finalised
    /\ context.request.method = <<"t","r","a","c","e">>
    /\ resource.allowed_methods = DefaultResource.allowed_methods
    /\ resource.known_methods = DefaultResource.known_methods
    /\ Status = 405
    /\ AllowListsAllowedMethods
    /\ Len(ResponseHeader("Allow")) = 3

\* A get request allowed as GET went past B10 without an Allow header
C26_WitnessAllowed ==
    /\ Finalised
    /\ context.request.method = <<"g","e","t">>
    /\ resource.allowed_methods = DefaultResource.allowed_methods
    /\ WasTrue("B10MethodAllowed")
    /\ LacksHeader("Allow")

---------------------------------------------------------------------------
(* C27: 415 and 413 are for PUT and POST only *)

\* The gates before B5 pass
ReachesContentType ==
    /\ ReachesMethodAllowed
    /\ MethodListed(resource.allowed_methods)
    /\ ~resource.malformed_request
    /\ ~IsSome(resource.not_authorized)
    /\ ~resource.forbidden
    /\ ~resource.unsupported_content_headers

\* The method is PUT or POST
PutOrPost == TextUpper(context.request.method) \in {<<"P","U","T">>, <<"P","O","S","T">>}

\* The content type of the request: the first value of its Content-Type
\* header, application/json without one
RequestContentType ==
    IF find_header(context.request, "Content-Type") = << >>
    THEN TxtApplicationJson
    ELSE find_header(context.request, "Content-Type")[1].value

\* It equals an entry of acceptable_content_types, letter case aside
ContentTypeAcceptable ==
    \E i \in 1..Len(resource.acceptable_content_types) :
        TextUpper(RequestContentType) = TextUpper(resource.acceptable_content_types[i])

\* The run ended at the gate `node`, which was true, with the status
EndedAt(node, status) ==
    /\ decisions # << >>
    /\ decisions[Len(decisions)] = <<D(node), TRUE, End(status)>>
    /\ Status = status

\* C27: a run ends 415 iff the earlier gates pass, the method is PUT or POST
\* and the request content type (application/json without a Content-Type
\* header) equals no entry of acceptable_content_types, letter case aside; it
\* ends 413 only for a PUT or POST with valid_entity_length false; for every
\* other method B5 and B4 are false, whatever the Content-Type header and
\* valid_entity_length.
C27_ContentTypeAndLength ==
    (Done \/ Finalised) =>
        /\ Status = 415 <=> (ReachesContentType /\ PutOrPost /\ ~ContentTypeAcceptable)
        /\ Status = 415 <=> EndedAt("B5UnknownContentType", 415)
        /\ Status = 413 <=> EndedAt("B4RequestEntityTooLarge", 413)
        /\ Status = 413 <=> (/\ ReachesContentType
                             /\ PutOrPost
                             /\ ContentTypeAcceptable
                             /\ ~resource.valid_entity_length)
        /\ ~PutOrPost =>
               /\ Status \notin {415, 413}
               /\ ~WasTrue("B5UnknownContentType")
               /\ ~WasTrue("B4RequestEntityTooLarge")
               /\ ReachesContentType => WasFalse("B4RequestEntityTooLarge")

\* A put with Content-Type: Application/XML to a resource that accepts
\* application/json ended 415
C27_Witness ==
    /\ Done
    /\ context.request.method = <<"p","u","t">>
    /\ RequestContentType = <<"A","p","p","l","i","c","a","t","i","o","n","/","X","M","L">>
    /\ resource.acceptable_content_types = DefaultResource.acceptable_content_types
    /\ Status = 415

\* A POST with Content-Type: APPLICATION/JSON passed B5 and ended 413
C27_WitnessTooLarge ==
    /\ Done
    /\ context.request.method = <<"P","O","S","T">>
    /\ RequestContentType = <<"A","P","P","L","I","C","A","T","I","O","N","/","J","S","O","N">>
    /\ ~resource.valid_entity_length
    /\ Status = 413

\* A GET with Content-Type: Application/XML and valid_entity_length false
\* passed both gates
C27_WitnessOtherMethod ==
    /\ Done
    /\ context.request.method = <<"G","E","T">>
    /\ RequestContentType = <<"A","p","p","l","i","c","a","t","i","o","n","/","X","M","L">>
    /\ ~resource.valid_entity_length
    /\ WasFalse("B5UnknownContentType")
    /\ WasFalse("B4RequestEntityTooLarge")
    /\ Status = 200

---------------------------------------------------------------------------
(* C28: OPTIONS *)

\* An OPTIONS request that passes every service gate has returned
OptionsReturned ==
    /\ Done
    /\ TextUpper(context.request.method) = <<"O","P","T","I","O","N","S">>
    /\ ReachesContentType

\* The mapping the options callback of the resource returns, if any
OptionsMapping ==
    IF resource.options = "cors"
    THEN [k \in {"Access-Control-Allow-Origin", "Access-Control-Allow-Methods",
                 "Access-Control-Allow-Headers"} |->
             CASE k = "Access-Control-Allow-Origin" -> <<<<"*">>>>
               [] k = "Access-Control-Allow-Methods" -> resource.allowed_methods
               [] OTHER -> <<<<"C","o","n","t","e","n","t","-","T","y","p","e">>>>]
    ELSE IF resource.options = "custom" THEN CustomOptions
    ELSE << >>

\* The response carries the header `name` with exactly the values `values`
CarriesValues(name, values) ==
    /\ name \in DOMAIN context.response.headers
    /\ Len(context.response.headers[name]) = Len(values)
    /\ \A i \in 1..Len(values) :
           /\ context.response.headers[name][i].value = values[i]
           /\ context.response.headers[name][i].params = << >>

\* The nodes of content negotiation
NegotiationNodes ==
    {"C3AcceptExists", "C4AcceptableMediaTypeAvailable", "D4AcceptLanguageExists",
     "D5AcceptableLanguageAvailable", "E5AcceptCharsetExists",
     "E6AcceptableCharsetAvailable", "F6AcceptEncodingExists",
     "F7AcceptableEncodingAvailable"}

\* C28: an OPTIONS request that passes every service gate terminates at
\* A3Options with status 204; every entry of the mapping the options
\* callback returns is a response header with its values; no negotiation
\* node is evaluated and neither resource_exists nor a write callback is
\* invoked in that run.
C28_Options ==
    OptionsReturned =>
        /\ state = D("A3Options")
        /\ WasTrue("B3Options")
        /\ decisions[Len(decisions)][1] = D("B3Options")
        /\ Status = 204
        /\ TimesInvoked("options") = 1
        /\ \A name \in DOMAIN OptionsMapping : CarriesValues(name, OptionsMapping[name])
        /\ DOMAIN context.response.headers = DOMAIN OptionsMapping
        /\ \A n \in NegotiationNodes \cup {"G7ResourceExists"} : ~Evaluated(n)
        /\ ~Invoked("resource_exists")
        /\ NoWriteInvoked

\* An options request whose callback returns a mapping of its own ended 204
\* with the headers A and C
C28_Witness ==
    /\ OptionsReturned
    /\ resource.options = "custom"
    /\ Status = 204
    /\ CarriesValues("A", <<<<"B">>>>)
    /\ CarriesValues("C", <<<<"D",";","E","=","F">>>>)
    /\ has_header(context.request, "Accept")
    /\ ~resource.resource_exists

---------------------------------------------------------------------------
(* C29: the Content-Type that finalise_response synthesizes *)

\* The names under which a response carries Content-Type, in any letter case
ContentTypeNames(response) ==
    {k \in DOMAIN response.headers : to_uppercase(k) = "CONTENT-TYPE"}

\* The one Content-Type value made of the selected media type and charset,
\* or of their defaults
SynthesizedContentType ==
    [value  |-> IF context.selected_media_type = None
                THEN <<"a","p","p","l","i","c","a","t","i","o","n","/","j","s","o","n">>
                ELSE context.selected_media_type[1],
     params |-> <<<<<<"c","h","a","r","s","e","t">>,
                    IF context.selected_charset = None
                    THEN <<"I","S","O","-","8","8","5","9","-","1">>
                    ELSE context.selected_charset[1]>>>>,
     quote  |-> FALSE]

\* A step of finalise_response
FinaliseStep == pc = "done" /\ pc' = "finalised"

\* What finalise_response does to Content-Type
ContentTypeSynthesis ==
    /\ context'.selected_media_type = context.selected_media_type
    /\ context'.selected_charset = context.selected_charset
    /\ IF ContentTypeNames(context.response) = {}
       THEN /\ ContentTypeNames(context'.response) = {"Content-Type"}
            /\ context'.response.headers["Content-Type"] = <<SynthesizedContentType>>
       ELSE /\ ContentTypeNames(context'.response) = ContentTypeNames(context.response)
            /\ \A k \in ContentTypeNames(context.response) :
                   context'.response.headers[k] = context.response.headers[k]

\* GET / to a default Resource
DefaultRun == resource = DefaultResource /\ context.request = DefaultRequest

\* C29: whenever finalise_response runs on a response without a Content-Type
\* header, whatever the status, it adds exactly one Content-Type value: its
\* media type is context.selected_media_type (application/json when unset)
\* and its one parameter is charset, equal to context.selected_charset
\* (ISO-8859-1 when unset); a Content-Type that a callback has set, under any
\* letter case, is left as it is.  GET / to a default Resource yields 200
\* with application/json;charset=ISO-8859-1.
C29_ContentType ==
    /\ [][FinaliseStep => ContentTypeSynthesis]_vars
    /\ []((Finalised /\ DefaultRun) =>
              /\ Status = 200
              /\ context.response.headers["Content-Type"]
                     = <<[value |-> <<"a","p","p","l","i","c","a","t","i","o","n","/","j","s","o","n">>,
                          params |-> <<<<<<"c","h","a","r","s","e","t">>, <<"I","S","O","-","8","8","5","9","-","1">>>>>>,
                          quote |-> FALSE]>>)

\* A run that ended 406 with nothing selected carries
\* application/json;charset=ISO-8859-1
C29_Witness ==
    /\ Finalised
    /\ Status = 406
    /\ context.selected_media_type = None
    /\ context.selected_charset = None
    /\ context.response.headers["Content-Type"]
           = <<[value |-> <<"a","p","p","l","i","c","a","t","i","o","n","/","j","s","o","n">>,
                params |-> <<<<<<"c","h","a","r","s","e","t">>, <<"I","S","O","-","8","8","5","9","-","1">>>>>>, quote |-> FALSE]>>

\* A run that selected text/html and UTF-8 carries text/html;charset=UTF-8
C29_WitnessSelected ==
    /\ Finalised
    /\ context.selected_media_type = Some(<<"t","e","x","t","/","h","t","m","l">>)
    /\ context.selected_charset = Some(<<"U","T","F","-","8">>)
    /\ context.response.headers["Content-Type"]
           = <<[value |-> <<"t","e","x","t","/","h","t","m","l">>,
                params |-> <<<<<<"c","h","a","r","s","e","t">>, <<"U","T","F","-","8">>>>>>, quote |-> FALSE]>>

\* A POST whose process_post set content-type in lower case keeps it and
\* gets no other
C29_WitnessKept ==
    /\ Finalised
    /\ Invoked("process_post")
    /\ ContentTypeNames(context.response) = {"content-type"}
    /\ context.response.headers["content-type"] = <<h(<<"t","e","x","t","/","p","l","a","i","n">>)>>

\* GET / to a default Resource has been finalised
C29_WitnessDefault ==
    /\ Finalised
    /\ DefaultRun
    /\ Status = 200

---------------------------------------------------------------------------
(* C30: the Vary header names the negotiated axes *)

\* The response's Vary header names the request header
VaryContains(name) ==
    \E k \in DOMAIN context.response.headers :
        /\ to_uppercase(k) = "VARY"
        /\ \E i \in 1..Len(context.response.headers[k]) :
               context.response.headers[k][i].value = name

\* C30: after finalise_response the response's Vary header contains
\* Accept-Language iff languages_provided has at least 2 entries,
\* Accept-Charset iff charsets_provided has at least 2, Accept-Encoding iff
\* encodings_provided has at least 2, and Accept iff produces has at least 2.
C30_VaryCorrect ==
    Finalised =>
        /\ VaryContains(<<"A","c","c","e","p","t","-","L","a","n","g","u","a","g","e">>) <=> Len(resource.languages_provided) >= 2
        /\ VaryContains(<<"A","c","c","e","p","t","-","C","h","a","r","s","e","t">>) <=> Len(resource.charsets_provided) >= 2
        /\ VaryContains(<<"A","c","c","e","p","t","-","E","n","c","o","d","i","n","g">>) <=> Len(resource.encodings_provided) >= 2
        /\ VaryContains(<<"A","c","c","e","p","t">>) <=> Len(resource.produces) >= 2

\* The request headers the resource negotiates over with more than one
\* choice, in the order the finalizer names them
NegotiatedAxes ==
    (IF Len(resource.languages_provided) >= 2 THEN <<<<"A","c","c","e","p","t","-","L","a","n","g","u","a","g","e">>>> ELSE << >>)
    \o (IF Len(resource.charsets_provided) >= 2 THEN <<<<"A","c","c","e","p","t","-","C","h","a","r","s","e","t">>>> ELSE << >>)
    \o (IF Len(resource.encodings_provided) >= 2 THEN <<<<"A","c","c","e","p","t","-","E","n","c","o","d","i","n","g">>>> ELSE << >>)
    \o (IF Len(resource.produces) >= 2 THEN <<<<"A","c","c","e","p","t">>>> ELSE << >>)

\* What holds: for a resource without variances, when no callback sets Vary,
\* the response carries Vary with exactly the negotiated axes when there are
\* two of them or more, and no Vary header when there is one or none.
C30_VaryOfTwoAxes ==
    (/\ Finalised
     /\ resource.variances = << >>
     /\ ~(Invoked("process_post") /\ resource.process_post.headers # EmptyMap)) =>
        IF Len(NegotiatedAxes) >= 2
        THEN CarriesValues("Vary", NegotiatedAxes)
        ELSE LacksHeader("Vary")

\* A resource with two languages and one choice on every other axis has been
\* finalised without a Vary header
C30_SingleAxis ==
    /\ Finalised
    /\ resource = [DefaultResource EXCEPT !.allowed_methods = AllMethodsAllowed,
                                          !.languages_provided = <<<<"e","n">>, <<"d","a">>>>]
    /\ context.request = DefaultRequest
    /\ Status = 200
    /\ LacksHeader("Vary")

---------------------------------------------------------------------------
(* C31: the body that finalise_response renders *)

\* The machine halted on a GET with status 200 and no body in the response
AwaitsBody ==
    /\ context.response.body = None
    /\ context.response.status = 200
    /\ TextUpper(context.request.method) = <<"G","E","T">>

\* The bytes of the texts render_response returns in the model
RenderedBytes ==
    CASE resource.render_response = Some(<< >>) -> << >>
      [] resource.render_response = Some(<<"h", "i">>) -> <<104, 105>>
      [] resource.render_response = Some(<<"h", "é">>) -> <<104, 195, 169>>

\* What finalise_response does to the body
BodyRendering ==
    /\ context'.response.status = context.response.status
    /\ IF AwaitsBody
       THEN /\ calls' = calls \o <<"generate_etag", "expires", "last_modified",
                                   "render_response">>
            /\ context'.response.body =
                   IF resource.render_response = None THEN None
                   ELSE Some(RenderedBytes)
       ELSE /\ \A i \in 1..Len(calls') : calls'[i] # "render_response"
            /\ context'.response.body = context.response.body

\* C31: finalise_response invokes render_response iff, after the machine
\* halted, the response has no body, the status is 200 and the method is GET,
\* and the body is then exactly the bytes it returns, none if it returns
\* none; in every other case (HEAD, another status, a body already set)
\* render_response is not invoked and the finalizer leaves the body as it is.
C31_BodyRendering == [][FinaliseStep => BodyRendering]_vars

\* A GET that ended 200 without a body carries the bytes of the rendered text
C31_Witness ==
    /\ Finalised
    /\ context.request.method = <<"g","e","t">>
    /\ Status = 200
    /\ resource.resource_exists_body = None
    /\ resource.render_response = Some(<<"h", "é">>)
    /\ Invoked("render_response")
    /\ context.response.body = Some(<<104, 195, 169>>)

\* A HEAD that ended 200 without a body has none after the finalizer
C31_WitnessHead ==
    /\ Finalised
    /\ context.request.method = <<"H","E","A","D">>
    /\ Status = 200
    /\ IsSome(resource.render_response)
    /\ ~Invoked("render_response")
    /\ context.response.body = None

\* A GET that ended 200 with a body a callback set keeps that body
C31_WitnessBodySet ==
    /\ Finalised
    /\ context.request.method = <<"G","E","T">>
    /\ Status = 200
    /\ IsSome(resource.render_response)
    /\ ~Invoked("render_response")
    /\ context.response.body = Some(<<111, 107>>)

---------------------------------------------------------------------------
(* C32: finish_request and the CORS headers of the default Resource *)

\* The response carries the three headers of Response::cors_headers
CarriesCorsHeaders ==
    /\ CarriesValues("Access-Control-Allow-Origin", <<<<"*">>>>)
    /\ CarriesValues("Access-Control-Allow-Methods", resource.allowed_methods)
    /\ CarriesValues("Access-Control-Allow-Headers", <<<<"C","o","n","t","e","n","t","-","T","y","p","e">>>>)

\* C32: for every request dispatched to a resource, finish_request is invoked
\* just before the final response is constructed, so the final response of a
\* default Resource carries Access-Control-Allow-Origin: *,
\* Access-Control-Allow-Methods: the allowed methods and
\* Access-Control-Allow-Headers: Content-Type.
C32_FinishRequest ==
    (Finalised /\ resource = DefaultResource) =>
        /\ Invoked("finish_request")
        /\ CarriesCorsHeaders

\* GET / to a default Resource ends 200 without any of the three headers
C32_GetWithoutCors ==
    /\ Finalised /\ DefaultRun
    /\ Status = 200
    /\ ~Invoked("finish_request")
    /\ LacksHeader("Access-Control-Allow-Origin")
    /\ LacksHeader("Access-Control-Allow-Methods")
    /\ LacksHeader("Access-Control-Allow-Headers")

---------------------------------------------------------------------------
(* C33: the route the dispatcher chooses *)

\* The routes whose non-empty segments the request path's begin with
MatchingRoutes ==
    {i \in DOMAIN routes :
        StartsWith(sanitise_path(uri_path), sanitise_path(routes[i].path))}

\* No matching route has more segments than route i
LongestNormalised(i) ==
    \A j \in MatchingRoutes :
        Len(sanitise_path(routes[j].path)) <= Len(sanitise_path(routes[i].path))

\* The request was dispatched
Dispatched == pc # "dispatch"

\* The run went to the resource of route i: the state machine ran on it, and
\* the finalizer after the state machine
RanOn(i) ==
    /\ pc # "not_found"
    /\ resource = routes[i].resource
    /\ context.request.base_path = routes[i].path
    /\ (Finalised => decisions # << >>)
    /\ (Invoked("render_response") => Finalised)

\* Nothing of a resource ran and the status is 404
NotFound ==
    /\ pc = "not_found"
    /\ Status = 404
    /\ calls = << >>
    /\ decisions = << >>

\* C33: a route matches iff the non-empty segments of the request path begin,
\* segment by segment, with those of the route ('/path12' does not match
\* '/path1'); the state machine and then the finalizer run on the resource of
\* the longest matching route, longest in its normalised form; without a
\* matching route the status is 404 and no resource callback runs.
C33_Dispatch ==
    Dispatched =>
        IF MatchingRoutes = {} THEN NotFound
        ELSE \E i \in MatchingRoutes : LongestNormalised(i) /\ RanOn(i)

\* The route key is its own normalised form
NormalisedKey(path) == path = join_paths(sanitise_path(path), << >>)

\* With route keys in normalised form the longest matching route is chosen
C33_NormalisedRoutes ==
    (Dispatched /\ \A i \in DOMAIN routes : NormalisedKey(routes[i].path)) =>
        IF MatchingRoutes = {} THEN NotFound
        ELSE \E i \in MatchingRoutes : LongestNormalised(i) /\ RanOn(i)

\* What the code chooses: the matching key with the most characters
C33_LongestKey ==
    Dispatched =>
        IF MatchingRoutes = {} THEN NotFound
        ELSE \E i \in MatchingRoutes :
                 /\ RanOn(i)
                 /\ \A j \in MatchingRoutes : Len(routes[j].path) <= Len(routes[i].path)

\* '/a/b' with the routes '/a///' and '/a/b' goes to the resource of '/a///'
C33_ShorterRouteChosen ==
    /\ Finalised
    /\ uri_path = <<"/","a","/","b">>
    /\ Len(routes) = 2
    /\ routes[1].path = <<"/","a","/","/","/">>
    /\ routes[2].path = <<"/","a","/","b">>
    /\ resource = routes[1].resource
    /\ context.response.body = Some(<<104, 105>>)

\* '/ab' does not match the route '/a'
C33_NoSegmentMatch ==
    /\ uri_path = <<"/","a","b">>
    /\ Len(routes) = 1
    /\ routes[1].path = <<"/","a">>
    /\ NotFound

---------------------------------------------------------------------------
(* C34: base_path and request_path after the dispatch *)

\* The request reached a resource
ReachedResource == Dispatched /\ pc # "not_found"

\* base_path followed by request_path has the segments of the original path
RoundTrip ==
    sanitise_path(context.request.base_path) \o sanitise_path(context.request.request_path)
        = sanitise_path(uri_path)

\* C34: after the dispatch base_path is the path of the chosen route and
\* request_path is the rest of the original path with a leading '/', '/'
\* when nothing is left, so the segments of base_path followed by those of
\* request_path are the segments of the original path, also when the original
\* path has duplicate or trailing slashes.
C34_PathRewriting ==
    ReachedResource =>
        /\ \E i \in MatchingRoutes : context.request.base_path = routes[i].path
        /\ StartsWith(context.request.request_path, <<"/">>)
        /\ RoundTrip

\* The round trip holds when the original path starts, as a string, with the
\* key of the route
C34_KeyIsStringPrefix ==
    (ReachedResource /\ StartsWith(uri_path, context.request.base_path)) => RoundTrip

\* '//a/b' on the route '/a' becomes base_path '/a' and request_path '/a/b'
C34_SegmentRepeated ==
    /\ Finalised
    /\ uri_path = <<"/","/","a","/","b">>
    /\ context.request.base_path = <<"/","a">>
    /\ context.request.request_path = <<"/","a","/","b">>

---------------------------------------------------------------------------
(* C35: the query of the request *)

\* The request was received with a query string
Received == pc # "receive" /\ IsSome(uri_query)

\* The tokens between the '&' of the query string, the empty ones left out
Tokens == SelectSeq(Split(Unwrap(uri_query), "&"), LAMBDA t : t # << >>)

\* The hexadecimal digits
HexDigits ==
    {"0", "1", "2", "3", "4", "5", "6", "7", "8", "9",
     "a", "b", "c", "d", "e", "f", "A", "B", "C", "D", "E", "F"}

\* The two characters after position i are hexadecimal digits
EscapeAt(t, i) ==
    /\ i + 2 <= Len(t)
    /\ t[i + 1] \in HexDigits
    /\ t[i + 2] \in HexDigits

\* The character that the escape %xy encodes
Encoded(x, y) ==
    CASE <<x, y>> = <<"2", "0">> -> " "
      [] <<x, y>> = <<"0", "0">> -> "NUL"
      [] <<x, y>> = <<"0", "2">> -> "STX"
      [] <<x, y>> = <<"2", "2">> -> DQ
      [] <<x, y>> = <<"2", "5">> -> "%"
      [] <<x, y>> = <<"4", "1">> -> "A"
      [] <<x, y>> = <<"6", "B">> -> "k"
      [] <<x, y>> \in {<<"3", "d">>, <<"3", "D">>} -> "="

\* A text decoded from position i on: '+' is a space, a '%' with two
\* hexadecimal digits is the byte they encode, a '%' with anything else
\* stays, with the up to two characters after it, as it is
RECURSIVE DecodedFrom(_, _)
DecodedFrom(t, i) ==
    IF i > Len(t) THEN << >>
    ELSE IF t[i] = "+" THEN <<" ">> \o DecodedFrom(t, i + 1)
    ELSE IF t[i] # "%" THEN <<t[i]>> \o DecodedFrom(t, i + 1)
    ELSE IF EscapeAt(t, i) THEN <<Encoded(t[i + 1], t[i + 2])>> \o DecodedFrom(t, i + 3)
    ELSE SubSeq(t, i, IF i + 2 <= Len(t) THEN i + 2 ELSE Len(t)) \o DecodedFrom(t, i + 3)

\* The decoded name and value of a token, split at its first '='
TokenName(t) ==
    DecodedFrom(IF IndexOf(t, "=") = 0 THEN t ELSE SubSeq(t, 1, IndexOf(t, "=") - 1), 1)
TokenValue(t) ==
    DecodedFrom(IF IndexOf(t, "=") = 0 THEN << >>
                ELSE SubSeq(t, IndexOf(t, "=") + 1, Len(t)), 1)

\* The values of the tokens with the name `name`, in the order of the tokens
ValuesOf(name) ==
    LET named == SelectSeq(Tokens, LAMBDA t : TokenName(t) = name)
    IN [i \in 1..Len(named) |-> TokenValue(named[i])]

\* C35: parse_query splits the query string on '&', empty tokens
\* contributing nothing, splits each token on its first '=', decodes both
\* sides with '+' as a space and %XX as the byte it encodes, leaves an invalid
\* or truncated escape literally in place, and accumulates the values of a
\* repeated name in order; 'a=a%20b%20c&k=&c=d=e=f' gives a -> ['a b c'],
\* k -> [''], c -> ['d=e=f'].
C35_ParseQuery ==
    Received =>
        /\ DOMAIN context.request.query = {TokenName(Tokens[i]) : i \in 1..Len(Tokens)}
        /\ \A name \in DOMAIN context.request.query :
               context.request.query[name] = ValuesOf(name)
        /\ (uri_query = Some(<<"a","=","a","%","2","0","b","%","2","0","c","&","k","=","&","c","=","d","=","e","=","f">>) =>
               context.request.query =
                   (<<"a">> :> <<<<"a"," ","b"," ","c">>>>) @@ (<<"k">> :> <<<< >>>>)
                       @@ (<<"c">> :> <<<<"d","=","e","=","f">>>>))

\* A repeated name, an escape in a name and an escaped '=' in a value
C35_Witness ==
    /\ Finalised
    /\ uri_query = Some(<<"%","6","B","=","%","4","1","&","k","=","%","3","d","%","3","D">>)
    /\ context.request.query = (<<"k">> :> <<<<"A">>, <<"=","=">>>>)

\* A truncated escape, an invalid one and '+'
C35_WitnessLiteral ==
    /\ Finalised
    /\ uri_query = Some(<<"k","+","v","=","%","2","5","+","%","k","v">>)
    /\ context.request.query = (<<"k"," ","v">> :> <<<<"%"," ","%","k","v">>>>)

\* The query string of the claim
C35_WitnessExample ==
    /\ Finalised
    /\ uri_query = Some(<<"a","=","a","%","2","0","b","%","2","0","c","&","k","=","&","c","=","d","=","e","=","f">>)
    /\ DOMAIN context.request.query = {<<"a">>, <<"k">>, <<"c">>}

---------------------------------------------------------------------------
(* C36: TRANSITION_MAP and the table of the specification's appendix *)

\* A node of the appendix, named by its place in the diagram, and End(status)
At(code) == <<code, 0>>
AtEnd(status) == <<"End", status>>

\* The appendix, row by row: the target of Start, and for every other node
\* the target when true and the target when false
AppendixTable(code) ==
    CASE code = "Start" -> <<At("B13")>>
      [] code = "B3" -> <<At("A3"), At("C3")>>
      [] code = "B4" -> <<AtEnd(413), At("B3")>>
      [] code = "B5" -> <<AtEnd(415), At("B4")>>
      [] code = "B6" -> <<AtEnd(501), At("B5")>>
      [] code = "B7" -> <<AtEnd(403), At("B6")>>
      [] code = "B8" -> <<At("B7"), AtEnd(401)>>
      [] code = "B9" -> <<AtEnd(400), At("B8")>>
      [] code = "B10" -> <<At("B9"), AtEnd(405)>>
      [] code = "B11" -> <<AtEnd(414), At("B10")>>
      [] code = "B12" -> <<At("B11"), AtEnd(501)>>
      [] code = "B13" -> <<At("B12"), AtEnd(503)>>
      [] code = "C3" -> <<At("C4"), At("D4")>>
      [] code = "C4" -> <<At("D4"), AtEnd(406)>>
      [] code = "D4" -> <<At("D5"), At("E5")>>
      [] code = "D5" -> <<At("E5"), AtEnd(406)>>
      [] code = "E5" -> <<At("E6"), At("F6")>>
      [] code = "E6" -> <<At("F6"), AtEnd(406)>>
      [] code = "F6" -> <<At("F7"), At("G7")>>
      [] code = "F7" -> <<At("G7"), AtEnd(406)>>
      [] code = "G7" -> <<At("G8"), At("H7")>>
      [] code = "G8" -> <<At("G9"), At("H10")>>
      [] code = "G9" -> <<At("H10"), At("G11")>>
      [] code = "G11" -> <<At("H10"), AtEnd(412)>>
      [] code = "H7" -> <<AtEnd(412), At("I7")>>
      [] code = "H10" -> <<At("H11"), At("I12")>>
      [] code = "H11" -> <<At("H12"), At("I12")>>
      [] code = "H12" -> <<AtEnd(412), At("I12")>>
      [] code = "I4" -> <<AtEnd(301), At("P3")>>
      [] code = "I7" -> <<At("I4"), At("K7")>>
      [] code = "I12" -> <<At("I13"), At("L13")>>
      [] code = "I13" -> <<At("J18"), At("K13")>>
      [] code = "J18" -> <<AtEnd(304), AtEnd(412)>>
      [] code = "K13" -> <<At("J18"), At("L13")>>
      [] code = "K5" -> <<AtEnd(301), At("L5")>>
      [] code = "K7" -> <<At("K5"), At("L7")>>
      [] code = "L5" -> <<AtEnd(307), At("M5")>>
      [] code = "L7" -> <<At("M7"), AtEnd(404)>>
      [] code = "L13" -> <<At("L14"), At("M16")>>
      [] code = "L14" -> <<At("L15"), At("M16")>>
      [] code = "L15" -> <<At("M16"), At("L17")>>
      [] code = "L17" -> <<At("M16"), AtEnd(304)>>
      [] code = "M5" -> <<At("N5"), AtEnd(410)>>
      [] code = "M7" -> <<At("N11"), AtEnd(404)>>
      [] code = "M16" -> <<At("M20"), At("N16")>>
      [] code = "M20" -> <<At("O20"), AtEnd(202)>>
      [] code = "N5" -> <<At("N11"), AtEnd(410)>>
      [] code = "N11" -> <<AtEnd(303), At("P11")>>
      [] code = "N16" -> <<At("N11"), At("O16")>>
      [] code = "O14" -> <<AtEnd(409), At("P11")>>
      [] code = "O16" -> <<At("O14"), At("O18")>>
      [] code = "P3" -> <<AtEnd(409), At("P11")>>
      [] code = "P11" -> <<AtEnd(201), At("O20")>>
      [] code = "O18" -> <<AtEnd(300), AtEnd(200)>>
      [] code = "O20" -> <<At("O18"), AtEnd(204)>>

AppendixCodes ==
    {"Start", "B3", "B4", "B5", "B6", "B7", "B8", "B9", "B10", "B11", "B12", "B13", "C3", "C4", "D4", "D5", "E5", "E6", "F6", "F7", "G7", "G8", "G9", "G11", "H7", "H10", "H11", "H12", "I4", "I7", "I12", "I13", "J18", "K13", "K5", "K7", "L5", "L7", "L13", "L14", "L15", "L17", "M5", "M7", "M16", "M20", "N5", "N11", "N16", "O14", "O16", "P3", "P11", "O18", "O20"}

\* The place in the diagram that the name of a Decision starts with
GridCode(node) ==
    CASE node = "A3Options" -> "A3"
      [] node = "B10MethodAllowed" -> "B10"
      [] node = "B11UriTooLong" -> "B11"
      [] node = "B12KnownMethod" -> "B12"
      [] node = "B13Available" -> "B13"
      [] node = "B3Options" -> "B3"
      [] node = "B4RequestEntityTooLarge" -> "B4"
      [] node = "B5UnknownContentType" -> "B5"
      [] node = "B6UnsupportedContentHeader" -> "B6"
      [] node = "B7Forbidden" -> "B7"
      [] node = "B8Authorized" -> "B8"
      [] node = "B9MalformedRequest" -> "B9"
      [] node = "C3AcceptExists" -> "C3"
      [] node = "C4AcceptableMediaTypeAvailable" -> "C4"
      [] node = "D4AcceptLanguageExists" -> "D4"
      [] node = "D5AcceptableLanguageAvailable" -> "D5"
      [] node = "E5AcceptCharsetExists" -> "E5"
      [] node = "E6AcceptableCharsetAvailable" -> "E6"
      [] node = "F6AcceptEncodingExists" -> "F6"
      [] node = "F7AcceptableEncodingAvailable" -> "F7"
      [] node = "G11EtagInIfMatch" -> "G11"
      [] node = "G7ResourceExists" -> "G7"
      [] node = "G8IfMatchExists" -> "G8"
      [] node = "G9IfMatchStarExists" -> "G9"
      [] node = "H10IfUnmodifiedSinceExists" -> "H10"
      [] node = "H11IfUnmodifiedSinceValid" -> "H11"
      [] node = "H12LastModifiedGreaterThanUMS" -> "H12"
      [] node = "H7IfMatchStarExists" -> "H7"
      [] node = "I12IfNoneMatchExists" -> "I12"
      [] node = "I13IfNoneMatchStarExists" -> "I13"
      [] node = "I4HasMovedPermanently" -> "I4"
      [] node = "I7Put" -> "I7"
      [] node = "J18GetHead" -> "J18"
      [] node = "K13ETagInIfNoneMatch" -> "K13"
      [] node = "K5HasMovedPermanently" -> "K5"
      [] node = "K7ResourcePreviouslyExisted" -> "K7"
      [] node = "L13IfModifiedSinceExists" -> "L13"
      [] node = "L14IfModifiedSinceValid" -> "L14"
      [] node = "L15IfModifiedSinceGreaterThanNow" -> "L15"
      [] node = "L17IfLastModifiedGreaterThanMS" -> "L17"
      [] node = "L5HasMovedTemporarily" -> "L5"
      [] node = "L7Post" -> "L7"
      [] node = "M16Delete" -> "M16"
      [] node = "M20DeleteEnacted" -> "M20"
      [] node = "M5Post" -> "M5"
      [] node = "M7PostToMissingResource" -> "M7"
      [] node = "N11Redirect" -> "N11"
      [] node = "N16Post" -> "N16"
      [] node = "N5PostToMissingResource" -> "N5"
      [] node = "O14Conflict" -> "O14"
      [] node = "O16Put" -> "O16"
      [] node = "O18MultipleRepresentations" -> "O18"
      [] node = "O20ResponseHasBody" -> "O20"
      [] node = "P11NewResource" -> "P11"
      [] node = "P3Conflict" -> "P3"
      [] node = "Start" -> "Start"

\* A Decision as the appendix writes it
InAppendix(decision) ==
    IF decision.node = "End" THEN AtEnd(decision.code) ELSE At(GridCode(decision.node))

\* The entry of a node in TRANSITION_MAP as a row of the appendix
RowOf(node) ==
    IF TRANSITION_MAP(node).kind = "To" THEN <<InAppendix(TRANSITION_MAP(node).t)>>
    ELSE <<InAppendix(TRANSITION_MAP(node).t), InAppendix(TRANSITION_MAP(node).f)>>

\* TRANSITION_MAP has the rows of the appendix and no other
TableIsAppendix ==
    /\ {GridCode(n) : n \in TransitionKeys} = AppendixCodes
    /\ \A n, m \in TransitionKeys : GridCode(n) = GridCode(m) => n = m
    /\ \A n \in TransitionKeys : RowOf(n) = AppendixTable(GridCode(n))

\* Every Decision that is not terminal has an entry, every target of an
\* entry is terminal or has an entry
TableIsDense ==
    /\ TransitionKeys = {n \in Decisions : ~is_terminal(D(n))}
    /\ \A n \in TransitionKeys :
           /\ is_terminal(TRANSITION_MAP(n).t) \/ TRANSITION_MAP(n).t.node \in TransitionKeys
           /\ is_terminal(TRANSITION_MAP(n).f) \/ TRANSITION_MAP(n).f.node \in TransitionKeys

\* Every node with a Branch has an arm of its own in execute_decision
BranchesHaveArms ==
    \A n \in TransitionKeys : TRANSITION_MAP(n).kind = "Branch" => n \in DecisionArms

\* The callbacks that may return Err(status)
FallibleCallbacks == {"delete_resource", "process_post", "create_path", "process_put"}

\* C36: TRANSITION_MAP is the table of the appendix: every Decision that is
\* not terminal has exactly one entry, with the targets the appendix gives,
\* every target is terminal or has an entry, and every branching node has its
\* own arm in execute_decision; so the machine never finds the table without
\* an entry for its state (the fallback to End(500) is unreachable) and a
\* status 500 comes only from a callback that returned Err(500).
C36_TransitionTable ==
    /\ TableIsAppendix
    /\ TableIsDense
    /\ BranchesHaveArms
    /\ (pc = "running" /\ ~is_terminal(state)) => IsSome(transition_get(state))
    /\ \A i \in 1..Len(decisions) : decisions[i][1].node \in DecisionArms
    /\ (state = End(500) \/ Status = 500) =>
           \E callback \in FallibleCallbacks :
               Failed(callback) /\ resource[callback].ret = Err(500)

\* A PUT whose process_put returned Err(500) ended 500 at P11
C36_Witness ==
    /\ Done
    /\ Status = 500
    /\ Failed("process_put")
    /\ NextOf("P11NewResource") = End(500)

\* A run that went through the longest path of the table ended below 500
C36_WitnessTable ==
    /\ Done
    /\ Status = 200
    /\ Evaluated("O18MultipleRepresentations")
    /\ Evaluated("M16Delete")

---------------------------------------------------------------------------
(* C37: how finalise_response builds Vary *)

\* The response already has a Vary header when the finalizer starts
VaryAlreadySet ==
    \E k \in DOMAIN context.response.headers : to_uppercase(k) = "VARY"

\* The entries collected: the variances, unless Vary is already set, then
\* the request headers of the axes that have two choices or more
VaryEntries ==
    (IF VaryAlreadySet THEN << >>
     ELSE [i \in 1..Len(resource.variances) |-> h(resource.variances[i])])
    \o [i \in 1..Len(NegotiatedAxes) |-> h(NegotiatedAxes[i])]

\* The position of the first occurrence of an entry
FirstOccurrence(entries, e) == FirstIndex(Len(entries), LAMBDA i : entries[i] = e)

\* The values are the entries without their repetitions, in the order of the
\* first occurrences
IsDeduplicated(values, entries) ==
    /\ {values[i] : i \in 1..Len(values)} = {entries[i] : i \in 1..Len(entries)}
    /\ \A i, j \in 1..Len(values) :
           i < j => FirstOccurrence(entries, values[i]) < FirstOccurrence(entries, values[j])

\* The finalizer sets Vary to the de-duplicated entries
VaryEmitted ==
    /\ "Vary" \in DOMAIN context'.response.headers
    /\ IsDeduplicated(context'.response.headers["Vary"], VaryEntries)

\* The finalizer adds no Vary header and leaves one that is there as it is
VaryUntouched ==
    /\ "Vary" \in DOMAIN context'.response.headers <=> "Vary" \in DOMAIN context.response.headers
    /\ "Vary" \in DOMAIN context.response.headers =>
           context'.response.headers["Vary"] = context.response.headers["Vary"]

\* The number of distinct entries
DistinctEntries == Cardinality({VaryEntries[i] : i \in 1..Len(VaryEntries)})

\* C37 as stated: finalise_response builds Vary from the variances (only when
\* Vary is not already set) and the negotiation header names, de-duplicates,
\* and emits the header only if two or more distinct entries result; with
\* fewer than two distinct entries no Vary header is added and an existing
\* one is left untouched.
C37_VaryOfDistinctEntries ==
    [][FinaliseStep => IF DistinctEntries >= 2 THEN VaryEmitted ELSE VaryUntouched]_vars

\* C37: finalise_response builds Vary from the variances (only when Vary is
\* not already set) and the negotiation header names, and emits the header,
\* de-duplicated, only if two or more entries were collected, repetitions
\* counted; with fewer than two entries no Vary header is added and an
\* existing one is left untouched.
C37_VaryOfEntries ==
    [][FinaliseStep => IF Len(VaryEntries) >= 2 THEN VaryEmitted ELSE VaryUntouched]_vars

\* Two variances that name the same header gave a Vary with that one name
C37_Witness ==
    /\ Finalised
    /\ resource.variances = <<<<"A","c","c","e","p","t">>, <<"A","c","c","e","p","t">>>>
    /\ NegotiatedAxes = << >>
    /\ ~Invoked("process_post")
    /\ CarriesValues("Vary", <<<<"A","c","c","e","p","t">>>>)

\* The variances of the repository's test, in their order
C37_WitnessVariances ==
    /\ Finalised
    /\ resource.variances = <<<<"H","E","A","D","E","R","-","A">>, <<"H","E","A","D","E","R","-","B">>>>
    /\ NegotiatedAxes = << >>
    /\ ~Invoked("process_post")
    /\ CarriesValues("Vary", <<<<"H","E","A","D","E","R","-","A">>, <<"H","E","A","D","E","R","-","B">>>>)

\* A Vary that process_post set stayed, with one axis and the variances unread
C37_WitnessUntouched ==
    /\ Finalised
    /\ Invoked("process_post")
    /\ resource.process_post.headers # EmptyMap
    /\ resource.variances = <<<<"H","E","A","D","E","R","-","A">>, <<"H","E","A","D","E","R","-","B">>>>
    /\ Len(NegotiatedAxes) = 1
    /\ CarriesValues("Vary", <<<<"O","r","i","g","i","n">>>>)

---------------------------------------------------------------------------
(* C38: the dates that L15 and H12 read *)

\* The machine is at the node: the node is the next one to be evaluated, or
\* the one whose evaluation panicked
AtNode(node) == pc \in {"running", "panic_unwrap"} /\ state.node = node

\* `node` was evaluated right after `before` answered true
OnlyThrough(node, before) ==
    /\ WasTrue(before)
    /\ NextOf(before) = D(node)
    /\ PositionOf(node) = PositionOf(before) + 1

\* C38: whenever the current node is L15, context.if_modified_since holds the
\* date that L14 parsed: L15 is reached only through L14 answering true, so
\* the unwrap at L15 never fails; likewise H12 is reached only after H11
\* stored if_unmodified_since.
C38_DatesStored ==
    /\ AtNode("L15IfModifiedSinceGreaterThanNow") =>
           /\ WasTrue("L14IfModifiedSinceValid")
           /\ decisions[Len(decisions)][1] = D("L14IfModifiedSinceValid")
           /\ DateParses("If-Modified-Since")
           /\ context.if_modified_since = Some(DateOf("If-Modified-Since"))
           /\ ~Aborted
    /\ Evaluated("L15IfModifiedSinceGreaterThanNow") =>
           OnlyThrough("L15IfModifiedSinceGreaterThanNow", "L14IfModifiedSinceValid")
    /\ AtNode("H12LastModifiedGreaterThanUMS") =>
           /\ WasTrue("H11IfUnmodifiedSinceValid")
           /\ decisions[Len(decisions)][1] = D("H11IfUnmodifiedSinceValid")
           /\ DateParses("If-Unmodified-Since")
           /\ context.if_unmodified_since = Some(DateOf("If-Unmodified-Since"))
    /\ Evaluated("H12LastModifiedGreaterThanUMS") =>
           OnlyThrough("H12LastModifiedGreaterThanUMS", "H11IfUnmodifiedSinceValid")

\* The machine stands at L15 with the date of the header in the context
C38_Witness ==
    /\ AtNode("L15IfModifiedSinceGreaterThanNow")
    /\ pc = "running"
    /\ IsSome(context.if_modified_since)
    /\ ~IsSome(context.if_unmodified_since)

\* The machine stands at H12 with the date of the header in the context
C38_WitnessUnmodified ==
    /\ AtNode("H12LastModifiedGreaterThanUMS")
    /\ pc = "running"
    /\ IsSome(context.if_unmodified_since)

\* An If-Modified-Since that does not parse never reaches L15
C38_WitnessInvalid ==
    /\ Done
    /\ WasFalse("L14IfModifiedSinceValid")
    /\ ~Evaluated("L15IfModifiedSinceGreaterThanNow")
    /\ context.if_modified_since = None

---------------------------------------------------------------------------
(* C39: the mutexes a request holds between two callbacks *)

\* The mutexes the request holds
HeldBy(t) == {c \in Mutexes : owner[c] = t}

\* The request is about to lock the mutex of a callback
AboutToLock(t) == Pending(t) /\ NextOp(t)[1] = "lock"

\* The request is inside the invocation of the callback
Executing(t, c) == Pending(t) /\ NextOp(t) = <<"call", c>>

\* C39: between two adjacent callback invocations of one request the engine
\* holds no lock: the mutex of a callback is acquired right before the
\* callback is invoked and released before the mutex of the next callback is
\* acquired, at every decision node (N11 included) and in the finalizer.
C39_NoLockBetweenCallbacks ==
    \A t \in DOMAIN tasks :
        /\ AboutToLock(t) => HeldBy(t) = {}
        /\ \A c \in Mutexes : Executing(t, c) => HeldBy(t) = {c}

\* What holds: a request holds a mutex while it locks another one only at
\* N11, where it holds post_is_create and locks create_path or process_post
C39_OnlyAtN11 ==
    \A t \in DOMAIN tasks :
        /\ (AboutToLock(t) /\ HeldBy(t) # {}) =>
               /\ HeldBy(t) = {"post_is_create"}
               /\ NextOp(t)[2] \in {"create_path", "process_post"}
        /\ \A c \in Mutexes : Executing(t, c) =>
               \/ HeldBy(t) = {c}
               \/ c \in {"create_path", "process_post"} /\ HeldBy(t) = {c, "post_is_create"}

\* A POST is inside create_path with the mutex of post_is_create still held
C39_TwoMutexesHeld ==
    /\ tasks # << >>
    /\ tasks[NumRequests].method = <<"P","O","S","T">>
    /\ Executing(NumRequests, "create_path")
    /\ HeldBy(NumRequests) = {"post_is_create", "create_path"}

---------------------------------------------------------------------------
(* C40: concurrent requests on a shared Resource *)

\* No two requests are inside the same callback
MutualExclusion ==
    \A c \in Mutexes : \A t, u \in DOMAIN tasks :
        (Executing(t, c) /\ Executing(u, c)) => t = u

\* A request inside a callback holds its mutex
HeldWhileInvoked ==
    \A c \in Mutexes : \A t \in DOMAIN tasks : Executing(t, c) => owner[c] = t

\* The request waits for a mutex that another request holds
Waits(t) == AboutToLock(t) /\ owner[NextOp(t)[2]] \notin {0, t}

\* A request that waits does not go on
WaitingStays == \A t \in DOMAIN tasks : Waits(t) => tasks'[t] = tasks[t]

\* The request has left the state machine and the finalizer
Served(t) == ~Pending(t)

\* C40: for a Resource shared by concurrent requests, the engine holds the
\* mutex of a callback for the whole awaited invocation, so at most one
\* request is inside a given callback at any instant and a second request
\* waits for it; with callbacks that terminate and take no callback lock
\* themselves, every request reaches a terminal node (no deadlock).
C40_SharedResource ==
    /\ [](MutualExclusion /\ HeldWhileInvoked)
    /\ [][WaitingStays]_vars
    /\ <>(tasks # << >> /\ \A t \in DOMAIN tasks : Served(t))

\* One request is inside available while the other waits for its mutex
C40_Witness ==
    /\ tasks # << >>
    /\ Executing(1, "available")
    /\ Waits(2)
    /\ NextOp(2) = <<"lock", "available">>

\* A POST waits for post_is_create while another POST is inside create_path
C40_WitnessNested ==
    /\ tasks # << >>
    /\ Executing(1, "create_path")
    /\ Waits(2)
    /\ NextOp(2) = <<"lock", "post_is_create">>

\* Every request has been served and every mutex is free
C40_WitnessServed ==
    /\ tasks # << >>
    /\ \A t \in DOMAIN tasks : Served(t)
    /\ \A c \in Mutexes : owner[c] = 0

=============================================================================
